---- MODULE Spec2Model ----
\* Model of the gcloud-secrets command line tool: the scan / reconciliation
\* engine (repository discovery, env-file location and parsing, remote state
\* index, OK / DIFF / NEW classification) of src/unnamed/part_000.
\*
\* Text is modelled as a sequence of one-character strings, so that the
\* regular expressions and string methods of the source are computed
\* character by character.
EXTENDS Integers, Sequences, FiniteSets, TLC

\* ---------------------------------------------------------------------
\* Characters and the string methods the source uses
\* ---------------------------------------------------------------------

AlphaLower == <<"a","b","c","d","e","f","g","h","i","j","k","l","m",
                "n","o","p","q","r","s","t","u","v","w","x","y","z">>

AlphaUpper == <<"A","B","C","D","E","F","G","H","I","J","K","L","M",
                "N","O","P","Q","R","S","T","U","V","W","X","Y","Z">>

Lower == {AlphaLower[i] : i \in 1..26}

Upper == {AlphaUpper[i] : i \in 1..26}

Digit == {"0","1","2","3","4","5","6","7","8","9"}

\* \s of a JavaScript regular expression and the characters trim() removes
WhiteSpace == {" ", "\t", "\n", "\r"}

\* the characters after which ^ matches under the m flag, and which . refuses
LineTerminator == {"\n", "\r"}

IdStart == Lower \cup Upper \cup {"_"}

IdChar == IdStart \cup Digit

\* null / undefined of the source: a value no text equals
Null == <<"null">>

\* JavaScript truthiness of a text-or-null: neither null nor the empty string
truthy(x) == x # Null /\ x # <<>>

\* the backtick character (a string literal cannot hold it)
Backtick == "BQ"

SetMin(S) == CHOOSE x \in S : \A y \in S : x <= y

SetMax(S) == CHOOSE x \in S : \A y \in S : x >= y

\* String.prototype.toLowerCase, one character
toLowerChar(c) ==
    IF c \in Upper THEN AlphaLower[CHOOSE i \in 1..26 : AlphaUpper[i] = c] ELSE c

toLowerCase(s) == [i \in 1..Len(s) |-> toLowerChar(s[i])]

\* String.prototype.trim
trim(s) ==
    LET keep == {i \in 1..Len(s) : s[i] \notin WhiteSpace}
    IN  IF keep = {} THEN <<>> ELSE SubSeq(s, SetMin(keep), SetMax(keep))

\* String.prototype.startsWith
startsWith(s, p) == Len(p) <= Len(s) /\ SubSeq(s, 1, Len(p)) = p

\* s.slice(n): the characters after the first n
slice(s, n) == SubSeq(s, n + 1, Len(s))

RECURSIVE splitFrom(_, _, _, _)
splitFrom(s, sep, i, cur) ==
    IF i > Len(s) THEN <<cur>>
    ELSE IF s[i] = sep THEN <<cur>> \o splitFrom(s, sep, i + 1, <<>>)
    ELSE splitFrom(s, sep, i + 1, Append(cur, s[i]))

\* String.prototype.split on a one-character separator
split(s, sep) == splitFrom(s, sep, 1, <<>>)

RECURSIVE join(_, _)
\* Array.prototype.join
join(parts, sep) ==
    IF Len(parts) = 0 THEN <<>>
    ELSE IF Len(parts) = 1 THEN parts[1]
    ELSE parts[1] \o <<sep>> \o join(Tail(parts), sep)

\* position of the first occurrence of pat in s, 0 when there is none
indexOf(s, pat) ==
    LET hits == {i \in 1..(Len(s) - Len(pat) + 1) : SubSeq(s, i, i + Len(pat) - 1) = pat}
    IN  IF hits = {} THEN 0 ELSE SetMin(hits)

\* s.replace(pat, ''), pat a string: only the first occurrence is removed
removeFirst(s, pat) ==
    LET i == indexOf(s, pat)
    IN  IF i = 0 THEN s ELSE SubSeq(s, 1, i - 1) \o SubSeq(s, i + Len(pat), Len(s))

RECURSIVE replaceCRLFFrom(_, _)
replaceCRLFFrom(s, i) ==
    IF i > Len(s) THEN <<>>
    ELSE IF s[i] = "\r" /\ i < Len(s) /\ s[i + 1] = "\n"
         THEN <<"\n">> \o replaceCRLFFrom(s, i + 2)
    ELSE <<s[i]>> \o replaceCRLFFrom(s, i + 1)

\* s.replace(/\r\n/g, '\n')
replaceCRLF(s) == replaceCRLFFrom(s, 1)

\* ---------------------------------------------------------------------
\* Name codec
\* ---------------------------------------------------------------------

\* makeSecretName(folder, key, env = null); a falsy env (null or '') is absent
makeSecretName(folder, key, env) ==
    IF truthy(env)
    THEN folder \o <<"_">> \o env \o <<"_">> \o key
    ELSE folder \o <<"_">> \o key

\* /^[a-z]+$/.test(s)
isLowerAlpha(s) == Len(s) >= 1 /\ \A i \in 1..Len(s) : s[i] \in Lower

\* getKeyFromSecret(secretName, folderName) -> {key, env}
getKeyFromSecret(secretName, folderName) ==
    LET prefix == folderName \o <<"_">>
    IN  IF ~startsWith(secretName, prefix)
        THEN [key |-> secretName, env |-> Null]
        ELSE LET rest  == slice(secretName, Len(prefix))
                 parts == split(rest, "_")
             IN  IF Len(parts) >= 2 /\ isLowerAlpha(parts[1])
                 THEN [key |-> join(Tail(parts), "_"), env |-> parts[1]]
                 ELSE [key |-> rest, env |-> Null]

RECURSIVE camelFrom(_, _)
\* name.replace(/([a-z])([A-Z])/g, '$1-$2'): left to right, matches do not overlap
camelFrom(s, i) ==
    IF i > Len(s) THEN <<>>
    ELSE IF i < Len(s) /\ s[i] \in Lower /\ s[i + 1] \in Upper
         THEN <<s[i], "-", s[i + 1]>> \o camelFrom(s, i + 2)
    ELSE <<s[i]>> \o camelFrom(s, i + 1)

\* mutant: the character class of the last replacement ignores case, and the
\* name is not lower-cased
normalizeFolder_CaseKept(name) ==
    LET hyphened == camelFrom(name, 1)
    IN  [i \in 1..Len(hyphened) |->
            IF hyphened[i] \in Lower \cup Upper \cup Digit \cup {"_", "-"}
            THEN hyphened[i] ELSE "-"]

\* normalizeFolder(name)
normalizeFolder(name) ==
    LET lowered == toLowerCase(camelFrom(name, 1))
    IN  [i \in 1..Len(lowered) |->
            IF lowered[i] \in Lower \cup Digit \cup {"_", "-"} THEN lowered[i] ELSE "-"]

\* ---------------------------------------------------------------------
\* Value comparison
\* ---------------------------------------------------------------------

\* mutant: the line endings are unified, the trim is missing
compareValues_NoTrim(a, b) == replaceCRLF(a) = replaceCRLF(b)

\* compareValues(a, b)
compareValues(a, b) == replaceCRLF(trim(a)) = replaceCRLF(trim(b))

\* ---------------------------------------------------------------------
\* Env-file parser
\* ---------------------------------------------------------------------

RECURSIVE skipWhile(_, _, _)
\* first position at or after i whose character is outside cls (Len(s)+1 if none):
\* where a greedy cls* starting at i stops
skipWhile(s, i, cls) ==
    IF i > Len(s) \/ s[i] \notin cls THEN i ELSE skipWhile(s, i + 1, cls)

NoMatch == [found |-> FALSE]

\* One attempt of the multi-line regular expression
\*   /^\s*([A-Za-z_][A-Za-z0-9_]*)\s*=\s*BQ([\s\S]*?)BQ/gm   (BQ the backtick)
\* at position p
\* (the character classes are disjoint, so the attempt is deterministic; the
\* lazy block ends at the first following backtick)
multilineAt(s, p) ==
    LET a == skipWhile(s, p, WhiteSpace)
    IN  IF ~(p = 1 \/ s[p - 1] \in LineTerminator) THEN NoMatch
        ELSE IF a > Len(s) \/ s[a] \notin IdStart THEN NoMatch
        ELSE LET b == skipWhile(s, a + 1, IdChar)
                 c == skipWhile(s, b, WhiteSpace)
             IN  IF c > Len(s) \/ s[c] # "=" THEN NoMatch
                 ELSE LET d == skipWhile(s, c + 1, WhiteSpace)
                          closing == {m \in (d + 1)..Len(s) : s[m] = Backtick}
                      IN  IF d > Len(s) \/ s[d] # Backtick \/ closing = {} THEN NoMatch
                          ELSE [found |-> TRUE,
                                key   |-> SubSeq(s, a, b - 1),
                                value |-> SubSeq(s, d + 1, SetMin(closing) - 1),
                                text  |-> SubSeq(s, p, SetMin(closing)),
                                last  |-> SetMin(closing)]

RECURSIVE multilineMatches(_, _)
\* the successive results of multilineRegex.exec(content), lastIndex = from - 1
multilineMatches(content, from) ==
    LET starts == {p \in from..Len(content) : multilineAt(content, p).found}
    IN  IF starts = {} THEN <<>>
        ELSE LET m == multilineAt(content, SetMin(starts))
             IN  <<m>> \o multilineMatches(content, m.last + 1)

RECURSIVE removeMatches(_, _)
\* remaining = remaining.replace(match[0], '') for each match in turn
removeMatches(remaining, matches) ==
    IF Len(matches) = 0 THEN remaining
    ELSE removeMatches(removeFirst(remaining, matches[1].text), Tail(matches))

Quote == {"\"", "'"}

\* value.replace(/^["']|["']$/g, ''): a leading quote and a trailing quote are
\* each removed on their own
stripQuotes(v) ==
    LET lead  == Len(v) >= 1 /\ v[1] \in Quote
        trail == Len(v) >= 2 /\ v[Len(v)] \in Quote
    IN  SubSeq(v, IF lead THEN 2 ELSE 1, IF trail THEN Len(v) - 1 ELSE Len(v))

\* mutant: the identifier may start with a digit ([A-Za-z0-9_]+)
lineMatch_DigitStart(line) ==
    LET a == skipWhile(line, 1, WhiteSpace)
    IN  IF a > Len(line) \/ line[a] \notin IdChar THEN NoMatch
        ELSE LET b == skipWhile(line, a + 1, IdChar)
                 c == skipWhile(line, b, WhiteSpace)
             IN  IF c > Len(line) \/ line[c] # "=" THEN NoMatch
                 ELSE LET d == skipWhile(line, c + 1, WhiteSpace)
                      IN  IF \E i \in d..Len(line) : line[i] \in LineTerminator THEN NoMatch
                          ELSE [found |-> TRUE,
                                key   |-> SubSeq(line, a, b - 1),
                                value |-> SubSeq(line, d, Len(line))]

\* line.match(/^\s*([A-Za-z_][A-Za-z0-9_]*)\s*=\s*(.*)$/); . refuses line terminators
lineMatch(line) ==
    LET a == skipWhile(line, 1, WhiteSpace)
    IN  IF a > Len(line) \/ line[a] \notin IdStart THEN NoMatch
        ELSE LET b == skipWhile(line, a + 1, IdChar)
                 c == skipWhile(line, b, WhiteSpace)
             IN  IF c > Len(line) \/ line[c] # "=" THEN NoMatch
                 ELSE LET d == skipWhile(line, c + 1, WhiteSpace)
                      IN  IF \E i \in d..Len(line) : line[i] \in LineTerminator THEN NoMatch
                          ELSE [found |-> TRUE,
                                key   |-> SubSeq(line, a, b - 1),
                                value |-> SubSeq(line, d, Len(line))]

RECURSIVE parseLines(_)
\* the loop over remaining.split('\n')
parseLines(lines) ==
    IF Len(lines) = 0 THEN <<>>
    ELSE LET line == lines[1]
             t    == trim(line)
             m    == lineMatch(line)
         IN  IF t = <<>> \/ t[1] = "#" THEN parseLines(Tail(lines))
             ELSE IF m.found
                  THEN <<[key |-> m.key, value |-> stripQuotes(m.value)]>> \o parseLines(Tail(lines))
             ELSE parseLines(Tail(lines))

\* parseEnvFile(content) -> entries
parseEnvFile(content) ==
    LET matches   == multilineMatches(content, 1)
        remaining == removeMatches(content, matches)
    IN  [i \in 1..Len(matches) |-> [key |-> matches[i].key, value |-> matches[i].value]]
        \o parseLines(split(remaining, "\n"))

\* ---------------------------------------------------------------------
\* The filesystem the tool reads
\* ---------------------------------------------------------------------
\* A filesystem is a set of nodes.  A path is a sequence of names, a name a
\* text.  type is what the directory entry says (Dirent); lstat is what
\* lstatSync answers for the path ("fail" when it throws); listable tells
\* whether readdirSync succeeds; content is the text readFileSync returns
\* (Null when the read throws); ignore is the answer of git check-ignore.

NameGit == <<".","g","i","t">>

NameNodeModules == <<"n","o","d","e","_","m","o","d","u","l","e","s">>

NameEnv == <<".","e","n","v">>

NameDevVars == <<".","d","e","v",".","v","a","r","s">>

NameEnvLocal == <<".","e","n","v",".","l","o","c","a","l">>

NameEnvProduction == <<".","e","n","v",".","p","r","o","d","u","c","t","i","o","n">>

Dir(path) ==
    [path |-> path, type |-> "dir", lstat |-> "dir", listable |-> TRUE,
     content |-> Null, ignore |-> "tracked"]

File(path, content, ignore) ==
    [path |-> path, type |-> "file", lstat |-> "file", listable |-> FALSE,
     content |-> content, ignore |-> ignore]

existsSync(F, path) == \E n \in F : n.path = path

nodeAt(F, path) == CHOOSE n \in F : n.path = path

\* path.dirname and path.basename(path.resolve(p)) on a path of names
dirname(path) == SubSeq(path, 1, Len(path) - 1)

basename(path) == path[Len(path)]

\* the order in which readdirSync lists the names of a directory
ListingOrder ==
    <<NameGit, NameEnv, NameDevVars, NameEnvLocal, NameEnvProduction,
      <<".","h">>, NameNodeModules, <<"a","B">>, <<"c">>, <<"l">>, <<"x">>, <<"y">>>>

RECURSIVE entriesFrom(_, _, _)
entriesFrom(F, path, i) ==
    IF i > Len(ListingOrder) THEN <<>>
    ELSE IF existsSync(F, Append(path, ListingOrder[i]))
         THEN <<[name |-> ListingOrder[i],
                 isDirectory |-> nodeAt(F, Append(path, ListingOrder[i])).type = "dir"]>>
              \o entriesFrom(F, path, i + 1)
    ELSE entriesFrom(F, path, i + 1)

\* readdirSync(path, {withFileTypes: true}) succeeds
canList(F, path) ==
    existsSync(F, path) /\ nodeAt(F, path).type = "dir" /\ nodeAt(F, path).listable

readdirSync(F, path) == entriesFrom(F, path, 1)

\* ---------------------------------------------------------------------
\* Repository discovery
\* ---------------------------------------------------------------------

NoWalk == [repos |-> <<>>, listed |-> <<>>]

RECURSIVE findWalk(_, _, _, _)
RECURSIVE walkEntries(_, _, _, _, _)
\* mutant: the depth test is off by one and lets the walk go one level deeper
findWalk_OneDeeper(F, basePath, maxDepth, currentDepth) ==
    IF currentDepth > maxDepth + 1 THEN NoWalk
    ELSE LET call == <<[path |-> basePath, depth |-> currentDepth]>>
         IN  IF ~canList(F, basePath) THEN [repos |-> <<>>, listed |-> call]
             ELSE LET w == walkEntries(F, basePath, maxDepth, currentDepth,
                                       readdirSync(F, basePath))
                  IN  [repos |-> w.repos, listed |-> call \o w.listed]

\* findGitRepositories(basePath, maxDepth, currentDepth) together with the
\* readdirSync calls it makes (listed: the directory and its depth, in call order)
findWalk(F, basePath, maxDepth, currentDepth) ==
    IF currentDepth > maxDepth THEN NoWalk
    ELSE LET call == <<[path |-> basePath, depth |-> currentDepth]>>
         IN  IF ~canList(F, basePath) THEN [repos |-> <<>>, listed |-> call]
             ELSE LET w == walkEntries(F, basePath, maxDepth, currentDepth,
                                       readdirSync(F, basePath))
                  IN  [repos |-> w.repos, listed |-> call \o w.listed]

\* mutant: the lstat test is missing, a link or an entry that cannot be
\* examined is walked like a directory
walkEntries_NoLstat(F, basePath, maxDepth, currentDepth, entries) ==
    IF Len(entries) = 0 THEN NoWalk
    ELSE LET entry    == entries[1]
             fullPath == Append(basePath, entry.name)
             rest     == walkEntries(F, basePath, maxDepth, currentDepth, Tail(entries))
         IN  IF ~entry.isDirectory THEN rest
             ELSE IF entry.name[1] = "." /\ entry.name # NameGit THEN rest
             ELSE IF entry.name = NameNodeModules THEN rest
             ELSE IF entry.name = NameGit
                  THEN [repos |-> <<dirname(fullPath)>> \o rest.repos, listed |-> rest.listed]
             ELSE LET sub == findWalk(F, fullPath, maxDepth, currentDepth + 1)
                  IN  [repos |-> sub.repos \o rest.repos, listed |-> sub.listed \o rest.listed]

\* mutant: the loop ends at the .git entry, the entries after it are not looked at
walkEntries_StopAtGit(F, basePath, maxDepth, currentDepth, entries) ==
    IF Len(entries) = 0 THEN NoWalk
    ELSE LET entry    == entries[1]
             fullPath == Append(basePath, entry.name)
             rest     == walkEntries(F, basePath, maxDepth, currentDepth, Tail(entries))
         IN  IF ~entry.isDirectory THEN rest
             ELSE IF entry.name[1] = "." /\ entry.name # NameGit THEN rest
             ELSE IF entry.name = NameNodeModules THEN rest
             ELSE IF nodeAt(F, fullPath).lstat \in {"fail", "symlink"} THEN rest
             ELSE IF entry.name = NameGit
                  THEN [repos |-> <<dirname(fullPath)>>, listed |-> <<>>]
             ELSE LET sub == findWalk(F, fullPath, maxDepth, currentDepth + 1)
                  IN  [repos |-> sub.repos \o rest.repos, listed |-> sub.listed \o rest.listed]

\* mutant: a subdirectory that cannot be listed ends the loop of its parent,
\* the entries after it are not looked at
walkEntries_FailEndsLoop(F, basePath, maxDepth, currentDepth, entries) ==
    IF Len(entries) = 0 THEN NoWalk
    ELSE LET entry    == entries[1]
             fullPath == Append(basePath, entry.name)
             rest     == walkEntries(F, basePath, maxDepth, currentDepth, Tail(entries))
         IN  IF ~entry.isDirectory THEN rest
             ELSE IF entry.name[1] = "." /\ entry.name # NameGit THEN rest
             ELSE IF entry.name = NameNodeModules THEN rest
             ELSE IF nodeAt(F, fullPath).lstat \in {"fail", "symlink"} THEN rest
             ELSE IF entry.name = NameGit
                  THEN [repos |-> <<dirname(fullPath)>> \o rest.repos, listed |-> rest.listed]
             ELSE LET sub == findWalk(F, fullPath, maxDepth, currentDepth + 1)
                  IN  IF currentDepth < maxDepth /\ ~canList(F, fullPath)
                      THEN [repos |-> <<>>, listed |-> sub.listed]
                      ELSE [repos |-> sub.repos \o rest.repos,
                            listed |-> sub.listed \o rest.listed]

\* the for loop over the entries of basePath
walkEntries(F, basePath, maxDepth, currentDepth, entries) ==
    IF Len(entries) = 0 THEN NoWalk
    ELSE LET entry    == entries[1]
             fullPath == Append(basePath, entry.name)
             rest     == walkEntries(F, basePath, maxDepth, currentDepth, Tail(entries))
         IN  IF ~entry.isDirectory THEN rest
             ELSE IF entry.name[1] = "." /\ entry.name # NameGit THEN rest
             ELSE IF entry.name = NameNodeModules THEN rest
             ELSE IF nodeAt(F, fullPath).lstat \in {"fail", "symlink"} THEN rest
             ELSE IF entry.name = NameGit
                  THEN [repos |-> <<dirname(fullPath)>> \o rest.repos, listed |-> rest.listed]
             ELSE LET sub == findWalk(F, fullPath, maxDepth, currentDepth + 1)
                  IN  [repos |-> sub.repos \o rest.repos, listed |-> sub.listed \o rest.listed]

findGitRepositories(F, basePath, maxDepth, currentDepth) ==
    findWalk(F, basePath, maxDepth, currentDepth).repos

\* ---------------------------------------------------------------------
\* Env-file locator
\* ---------------------------------------------------------------------

EnvFileNames == <<NameEnv, NameDevVars, NameEnvLocal, NameEnvProduction>>

RECURSIVE envFilesFrom(_, _, _)
\* mutant: gitIgnored is set before the check runs, a failing check leaves it true
envFilesFrom_FailureIsIgnored(F, repoPath, i) ==
    IF i > Len(EnvFileNames) THEN <<>>
    ELSE LET filePath == Append(repoPath, EnvFileNames[i])
         IN  IF existsSync(F, filePath)
             THEN <<[path |-> filePath, filename |-> EnvFileNames[i],
                     gitIgnored |-> nodeAt(F, filePath).ignore # "tracked"]>>
                  \o envFilesFrom(F, repoPath, i + 1)
             ELSE envFilesFrom(F, repoPath, i + 1)

envFilesFrom(F, repoPath, i) ==
    IF i > Len(EnvFileNames) THEN <<>>
    ELSE LET filePath == Append(repoPath, EnvFileNames[i])
         IN  IF existsSync(F, filePath)
             THEN <<[path |-> filePath, filename |-> EnvFileNames[i],
                     gitIgnored |-> nodeAt(F, filePath).ignore = "ignored"]>>
                  \o envFilesFrom(F, repoPath, i + 1)
             ELSE envFilesFrom(F, repoPath, i + 1)

\* findEnvFiles(repoPath)
findEnvFiles(F, repoPath) == envFilesFrom(F, repoPath, 1)

\* ---------------------------------------------------------------------
\* Maps of the source (insertion ordered): sequences of [key, val]
\* ---------------------------------------------------------------------

mapHas(m, k) == \E i \in 1..Len(m) : m[i].key = k

\* m.get(k) || dflt
mapGet(m, k, dflt) ==
    IF mapHas(m, k) THEN m[CHOOSE i \in 1..Len(m) : m[i].key = k].val ELSE dflt

\* m.set(k, v)
mapSet(m, k, v) ==
    IF mapHas(m, k)
    THEN [i \in 1..Len(m) |-> IF m[i].key = k THEN [key |-> k, val |-> v] ELSE m[i]]
    ELSE Append(m, [key |-> k, val |-> v])

RECURSIVE dedupe(_)
\* Array.from(new Set(xs)): first occurrences, in order
dedupe(xs) ==
    IF Len(xs) = 0 THEN <<>>
    ELSE LET front == dedupe(SubSeq(xs, 1, Len(xs) - 1))
             x     == xs[Len(xs)]
         IN  IF \E i \in 1..Len(front) : front[i] = x THEN front ELSE Append(front, x)

\* ---------------------------------------------------------------------
\* Remote state index and the reconciler's pure parts
\* ---------------------------------------------------------------------

\* mutant: groups keyed by folder alone, the environment label dropped
mapKeyOf_FolderOnly(folder, env) == folder \o <<"|">>

\* the map key of a (folder, environment) group
mapKeyOf(folder, env) == folder \o <<"|">> \o (IF truthy(env) THEN env ELSE <<>>)

\* mutant: the test of the folder label is missing, a secret without labels
\* is grouped too
indexAdd_Unlabelled(index, secret) ==
    LET f == secret.folder
        e == IF truthy(secret.env) THEN secret.env ELSE Null
    IN  mapSet(index, mapKeyOf(f, e),
               Append(mapGet(index, mapKeyOf(f, e), <<>>), [secret |-> secret, env |-> e]))

\* one iteration of the index build, after getSecret returned the labels
indexAdd(index, secret) ==
    LET f == secret.folder
        e == IF truthy(secret.env) THEN secret.env ELSE Null
    IN  IF truthy(f)
        THEN mapSet(index, mapKeyOf(f, e),
                    Append(mapGet(index, mapKeyOf(f, e), <<>>), [secret |-> secret, env |-> e]))
        ELSE index

\* mutant: the environments of every folder of the index, not of this one only
envsToCheckOf_AnyFolder(index, folder, filter) ==
    IF truthy(filter) THEN <<filter>>
    ELSE LET envs == [i \in 1..Len(index) |-> split(index[i].key, "|")[2]]
         IN  <<Null>> \o dedupe(SelectSeq(envs, LAMBDA e : e # <<>>))

\* the environments to check for a file
envsToCheckOf(index, folder, filter) ==
    IF truthy(filter) THEN <<filter>>
    ELSE LET keys   == [i \in 1..Len(index) |-> index[i].key]
             mine   == SelectSeq(keys, LAMBDA k : startsWith(k, folder \o <<"|">>))
             envs   == [i \in 1..Len(mine) |-> split(mine[i], "|")[2]]
         IN  <<Null>> \o dedupe(SelectSeq(envs, LAMBDA e : e # <<>>))

\* mutant: only the first local entry of each key is compared
hasDiffOf_FirstEntryOnly(localEntries, remoteKeys, remoteValues) ==
    \/ \E i \in 1..Len(localEntries) :
          /\ \A j \in 1..(i - 1) : localEntries[j].key # localEntries[i].key
          /\ \/ localEntries[i].key \notin remoteKeys
             \/ ~compareValues(localEntries[i].value,
                               mapGet(remoteValues, localEntries[i].key, <<>>))
    \/ \E key \in remoteKeys :
          ~\E i \in 1..Len(localEntries) : localEntries[i].key = key

\* the two comparison loops: some local entry is missing remotely or differs,
\* or (only then looked at) some remote key has no local entry
hasDiffOf(localEntries, remoteKeys, remoteValues) ==
    \/ \E i \in 1..Len(localEntries) :
          \/ localEntries[i].key \notin remoteKeys
          \/ ~compareValues(localEntries[i].value,
                            mapGet(remoteValues, localEntries[i].key, <<>>))
    \/ \E key \in remoteKeys :
          ~\E i \in 1..Len(localEntries) : localEntries[i].key = key

\* ---------------------------------------------------------------------
\* State
\* ---------------------------------------------------------------------

VARIABLES
    pc,                 \* where the invocation stands
    fs,                 \* the filesystem (set of nodes)
    store,              \* the remote secret store: sequence of secrets
    filterEnv,          \* parsed.env of the command (Null when not given, <<>> for --env=)
    maxDepth,           \* maxDepth of a direct findGitRepositories call
    repos,              \* result of findGitRepositories
    listed,             \* the readdirSync calls discovery made
    allSecrets,         \* result of listSecrets
    getIdx,             \* position of the index build loop in allSecrets
    secretsByFolderEnv, \* the remote state index
    results, syncedCount, diffCount, newCount,
    repoIdx, envFiles, fileIdx, localEntries, envsToCheck, envIdx,
    folderSecrets, secIdx, remoteKeys, remoteValues,
    calls,              \* log of the remote-store calls issued, with outcome
    tuples,             \* log of the (repository path, file, environment) evaluated
    faults,             \* number of remote calls that failed with another error than NotFound
    args,               \* the arguments of a direct call of one of the functions
    ret,                \* what that call returned
    lines,              \* content.split("\n") of the file the push command uploads
    lineIdx,            \* position of the push loop in lines
    count,              \* count of the push command: the keys uploaded so far
    before              \* the remote store as it was when the push command started

inputVars == <<fs, store, filterEnv, maxDepth>>

indexVars == <<allSecrets, getIdx, secretsByFolderEnv>>

tallyVars == <<results, syncedCount, diffCount, newCount>>

loopVars == <<repoIdx, envFiles, fileIdx, localEntries, envsToCheck, envIdx>>

fetchVars == <<folderSecrets, secIdx, remoteKeys, remoteValues>>

callVars == <<args, ret>>

pushVars == <<lines, lineIdx, count, before>>

vars == <<pc, inputVars, repos, listed, indexVars, tallyVars, loopVars, fetchVars,
          calls, tuples, faults, callVars, pushVars>>

\* ---------------------------------------------------------------------
\* Bounds and the inputs drawn in Init
\* ---------------------------------------------------------------------

\* most secrets in the remote store
MaxSecrets == 2

\* most remote calls that fail with an error other than NotFound
MaxFaults == 1

\* the literal maxDepth the scan command passes to findGitRepositories
ScanMaxDepth == 5

BasePath == <<<<"w">>>>

RepoA == BasePath \o <<<<"a","B">>>>

RepoA2 == BasePath \o <<<<"x">>, <<"a","B">>>>

FolderA == <<"a","-","b">>

FolderC == <<"c">>

EnvD == <<"d">>

EnvE == <<"e">>

KeyK == <<"K">>

KeyPK == <<"p","_","K">>

TextK1 == <<"K","=","1">>

TextPK1 == <<"p","_","K","=","1">>

TextKEmpty == <<"K","=">>

TextComment == <<"#"," ","c","\n">>

Contents == {TextK1, TextPK1, TextKEmpty, TextComment}

DefaultLabel == <<"(","d","e","f","a","u","l","t",")">>

Secret(folder, env, key, latest) ==
    [name |-> makeSecretName(folder, key, env), folder |-> folder, env |-> env,
     latest |-> latest]

\* the secrets a store may hold, in listing order; latest = Null: no version yet
SecretUniverse ==
    <<Secret(FolderA, Null, KeyK,  <<"1","\r","\n">>),
      Secret(FolderA, Null, KeyK,  <<"2">>),
      Secret(FolderA, Null, KeyK,  Null),
      Secret(FolderA, Null, KeyPK, <<"1","\r","\n">>),
      Secret(FolderA, Null, KeyPK, <<"2">>),
      Secret(FolderA, EnvD, KeyK,  <<"1","\r","\n">>),
      Secret(FolderA, EnvD, KeyK,  <<"2">>),
      Secret(FolderA, EnvD, KeyK,  Null),
      Secret(FolderA, EnvD, KeyPK, <<"1","\r","\n">>),
      Secret(FolderC, EnvE, KeyK,  <<"2">>),
      [name |-> <<"z">>, folder |-> Null, env |-> Null, latest |-> <<"2">>]>>

RECURSIVE pick(_, _, _)
\* the members of xs whose positions are in S, in order
pick(xs, S, i) ==
    IF i > Len(xs) THEN <<>>
    ELSE IF i \in S THEN <<xs[i]>> \o pick(xs, S, i + 1)
    ELSE pick(xs, S, i + 1)

\* stores: at most MaxSecrets secrets, no two with the same name
Stores ==
    {pick(SecretUniverse, S, 1) :
        S \in {T \in SUBSET (1..Len(SecretUniverse)) :
                 /\ Cardinality(T) <= MaxSecrets
                 /\ \A i, j \in T : i # j => SecretUniverse[i].name # SecretUniverse[j].name}}

RepoADirs == {Dir(BasePath), Dir(RepoA), Dir(Append(RepoA, NameGit))}

RepoA2Nodes ==
    {Dir(Append(BasePath, <<"x">>)), Dir(RepoA2), Dir(Append(RepoA2, NameGit)),
     File(Append(RepoA2, NameEnv), TextK1, "ignored")}

\* trees the scan runs on: repository w/aB with an optional .env and an
\* optional .dev.vars (possibly unreadable), and optionally a second
\* repository w/x/aB of the same name
ScanTrees ==
    {RepoADirs \cup envA \cup devA \cup second :
        envA \in {{}} \cup {{File(Append(RepoA, NameEnv), c, "ignored")} : c \in Contents},
        devA \in {{}} \cup {{File(Append(RepoA, NameDevVars), c, "tracked")} :
                                c \in {TextK1, TextComment, Null}},
        second \in {{}, RepoA2Nodes}}

Init ==
    /\ pc = "start"
    /\ fs \in ScanTrees
    /\ store \in Stores
    /\ filterEnv \in {Null, <<>>, EnvD}
    /\ maxDepth = ScanMaxDepth
    /\ repos = <<>>
    /\ listed = <<>>
    /\ allSecrets = <<>>
    /\ getIdx = 1
    /\ secretsByFolderEnv = <<>>
    /\ results = <<>>
    /\ syncedCount = 0
    /\ diffCount = 0
    /\ newCount = 0
    /\ repoIdx = 1
    /\ envFiles = <<>>
    /\ fileIdx = 1
    /\ localEntries = <<>>
    /\ envsToCheck = <<>>
    /\ envIdx = 1
    /\ folderSecrets = <<>>
    /\ secIdx = 1
    /\ remoteKeys = {}
    /\ remoteValues = <<>>
    /\ calls = <<>>
    /\ tuples = <<>>
    /\ faults = 0
    /\ args = <<>>
    /\ ret = Null
    /\ lines = <<>>
    /\ lineIdx = 1
    /\ count = 0
    /\ before = <<>>

\* ---------------------------------------------------------------------
\* The scan command (runCli, case "scan")
\* ---------------------------------------------------------------------

\* outcomes of a remote call other than NotFound: success, or another error
\* (permission denied, unavailable, ...) while the fault budget lasts
Outcomes == {"ok"} \cup (IF faults < MaxFaults THEN {"denied"} ELSE {})

logCall(op, name, outcome) ==
    /\ calls' = Append(calls, [op |-> op, name |-> name, outcome |-> outcome,
                               tuple |-> Len(tuples)])
    /\ faults' = IF outcome = "denied" THEN faults + 1 ELSE faults

\* the secret of that name as the store holds it
storeSecret(name) == store[CHOOSE i \in 1..Len(store) : store[i].name = name]

\* the repository, its name and folder, and the env file the loop stands at
repoPath == repos[repoIdx]

repoName == basename(repoPath)

normalizedFolder == normalizeFolder(repoName)

envFile == envFiles[fileIdx]

checkEnv == envsToCheck[envIdx]

envLabel == IF truthy(checkEnv) THEN checkEnv ELSE DefaultLabel

\* mutant: only an unreadable file is passed over
skipFile_Unreadable(content) == content = Null

\* the file is passed over: unreadable, blank, or without a parsed entry
skipFile(content) ==
    content = Null \/ trim(content) = <<>> \/ Len(parseEnvFile(content)) = 0

\* mutant: the NEW branch pushes its result but forgets newCount++
classify_NewNotCounted(status) ==
    /\ results' = Append(results,
                    [status |-> status, repo |-> repoName, file |-> envFile.filename,
                     env |-> envLabel, keyCount |-> Len(localEntries),
                     gitIgnored |-> envFile.gitIgnored])
    /\ syncedCount' = IF status = "OK" THEN syncedCount + 1 ELSE syncedCount
    /\ diffCount' = IF status = "DIFF" THEN diffCount + 1 ELSE diffCount
    /\ newCount' = newCount

\* mutant: keyCount is the number of different keys, a key written twice
\* counted once
classify_DistinctKeys(status) ==
    /\ results' = Append(results,
                    [status |-> status, repo |-> repoName, file |-> envFile.filename,
                     env |-> envLabel,
                     keyCount |-> Cardinality({e.key : e \in {localEntries[i] :
                                                              i \in 1..Len(localEntries)}}),
                     gitIgnored |-> envFile.gitIgnored])
    /\ syncedCount' = IF status = "OK" THEN syncedCount + 1 ELSE syncedCount
    /\ diffCount' = IF status = "DIFF" THEN diffCount + 1 ELSE diffCount
    /\ newCount' = IF status = "NEW" THEN newCount + 1 ELSE newCount

\* results.push({status, ...}) and the increment of the status' counter
classify(status) ==
    /\ results' = Append(results,
                    [status |-> status, repo |-> repoName, file |-> envFile.filename,
                     env |-> envLabel, keyCount |-> Len(localEntries),
                     gitIgnored |-> envFile.gitIgnored])
    /\ syncedCount' = IF status = "OK" THEN syncedCount + 1 ELSE syncedCount
    /\ diffCount' = IF status = "DIFF" THEN diffCount + 1 ELSE diffCount
    /\ newCount' = IF status = "NEW" THEN newCount + 1 ELSE newCount

\* discovery, then await client.listSecrets({parent})
ScanListSecrets ==
    /\ pc = "start"
    /\ LET w == findWalk(fs, BasePath, ScanMaxDepth, 0)
       IN  repos' = w.repos /\ listed' = w.listed
    /\ \E o \in Outcomes :
          /\ logCall("listSecrets", <<>>, o)
          /\ IF o = "ok"
             THEN /\ allSecrets' = store
                  /\ pc' = IF Len(store) = 0 THEN "repos" ELSE "index"
             ELSE /\ allSecrets' = allSecrets
                  /\ pc' = "failed"
    /\ UNCHANGED <<pushVars, inputVars, getIdx, secretsByFolderEnv, tallyVars, loopVars,
                   fetchVars, tuples, callVars>>

\* mutant: the index build refreshes the labels of each secret it reads, as
\* push does after its getSecret
ScanGetSecret_Relabel ==
    /\ pc = "index"
    /\ getIdx <= Len(allSecrets)
    /\ calls' = calls \o
          <<[op |-> "getSecret", name |-> allSecrets[getIdx].name, outcome |-> "ok",
             tuple |-> Len(tuples)],
            [op |-> "updateSecret", name |-> allSecrets[getIdx].name, outcome |-> "ok",
             tuple |-> Len(tuples)]>>
    /\ store' = [i \in 1..Len(store) |->
                   IF store[i].name = allSecrets[getIdx].name
                   THEN [store[i] EXCEPT !.env = EnvD] ELSE store[i]]
    /\ secretsByFolderEnv' =
          indexAdd(secretsByFolderEnv, storeSecret(allSecrets[getIdx].name))
    /\ getIdx' = getIdx + 1
    /\ pc' = IF getIdx = Len(allSecrets) THEN "repos" ELSE "index"
    /\ UNCHANGED <<pushVars, fs, filterEnv, maxDepth, repos, listed, allSecrets, tallyVars,
                   loopVars, fetchVars, tuples, faults, callVars>>

\* one iteration of the index build: await client.getSecret, then grouping
ScanGetSecret ==
    /\ pc = "index"
    /\ getIdx <= Len(allSecrets)
    /\ \E o \in Outcomes :
          /\ logCall("getSecret", allSecrets[getIdx].name, o)
          /\ IF o = "ok"
             THEN /\ secretsByFolderEnv' =
                        indexAdd(secretsByFolderEnv, storeSecret(allSecrets[getIdx].name))
                  /\ getIdx' = getIdx + 1
                  /\ pc' = IF getIdx = Len(allSecrets) THEN "repos" ELSE "index"
             ELSE /\ UNCHANGED <<secretsByFolderEnv, getIdx>>
                  /\ pc' = "failed"
    /\ UNCHANGED <<pushVars, inputVars, repos, listed, allSecrets, tallyVars, loopVars,
                   fetchVars, tuples, callVars>>

\* for (const repoPath of repos): findEnvFiles, continue when there is none
ScanRepo ==
    /\ pc = "repos"
    /\ repoIdx <= Len(repos)
    /\ LET found == findEnvFiles(fs, repoPath)
       IN  IF Len(found) = 0
           THEN /\ repoIdx' = repoIdx + 1
                /\ UNCHANGED <<pc, envFiles, fileIdx>>
           ELSE /\ envFiles' = found
                /\ fileIdx' = 1
                /\ pc' = "files"
                /\ UNCHANGED repoIdx
    /\ UNCHANGED <<pushVars, inputVars, repos, listed, indexVars, tallyVars, localEntries,
                   envsToCheck, envIdx, fetchVars, calls, tuples, faults, callVars>>

\* for (const envFile of envFiles): read, parse, choose the environments
ScanFile ==
    /\ pc = "files"
    /\ IF fileIdx > Len(envFiles)
       THEN /\ pc' = "repos"
            /\ repoIdx' = repoIdx + 1
            /\ envFiles' = <<>>
            /\ fileIdx' = 1
            /\ UNCHANGED <<localEntries, envsToCheck, envIdx>>
       ELSE LET content == nodeAt(fs, envFile.path).content
            IN  IF skipFile(content)
                THEN /\ fileIdx' = fileIdx + 1
                     /\ UNCHANGED <<pc, repoIdx, envFiles, localEntries, envsToCheck, envIdx>>
                ELSE /\ localEntries' = parseEnvFile(content)
                     /\ envsToCheck' = envsToCheckOf(secretsByFolderEnv, normalizedFolder,
                                                     filterEnv)
                     /\ envIdx' = 1
                     /\ pc' = "envs"
                     /\ UNCHANGED <<repoIdx, envFiles, fileIdx>>
    /\ UNCHANGED <<pushVars, inputVars, repos, listed, indexVars, tallyVars, fetchVars,
                   calls, tuples, faults, callVars>>

\* for (const checkEnv of envsToCheck): NEW when the group is empty, else
\* start fetching the group's values
ScanEnv ==
    /\ pc = "envs"
    /\ IF envIdx > Len(envsToCheck)
       THEN /\ pc' = "files"
            /\ fileIdx' = fileIdx + 1
            /\ localEntries' = <<>>
            /\ envsToCheck' = <<>>
            /\ envIdx' = 1
            /\ UNCHANGED <<tallyVars, fetchVars, tuples>>
       ELSE LET group == mapGet(secretsByFolderEnv, mapKeyOf(normalizedFolder, checkEnv), <<>>)
            IN  /\ tuples' = Append(tuples, [repoPath |-> repoPath, file |-> envFile.filename,
                                             env |-> checkEnv])
                /\ IF Len(group) = 0
                   THEN /\ classify("NEW")
                        /\ envIdx' = envIdx + 1
                        /\ UNCHANGED <<pc, fetchVars>>
                   ELSE /\ folderSecrets' = group
                        /\ secIdx' = 1
                        /\ remoteKeys' = {}
                        /\ remoteValues' = <<>>
                        /\ pc' = "fetch"
                        /\ UNCHANGED <<tallyVars, envIdx>>
                /\ UNCHANGED <<fileIdx, localEntries, envsToCheck>>
    /\ UNCHANGED <<pushVars, inputVars, repos, listed, indexVars, repoIdx, envFiles, calls, faults, callVars>>

\* one iteration of for (const {secret} of folderSecrets): decode the key,
\* await client.accessSecretVersion; every error is caught and dropped
ScanAccess ==
    /\ pc = "fetch"
    /\ secIdx <= Len(folderSecrets)
    /\ LET secret == folderSecrets[secIdx].secret
           key    == getKeyFromSecret(secret.name, normalizedFolder).key
           latest == storeSecret(secret.name).latest
       IN  /\ remoteKeys' = remoteKeys \cup {key}
           /\ \E o \in (Outcomes \ {"ok"}) \cup {IF latest = Null THEN "notFound" ELSE "ok"} :
                 /\ logCall("accessSecretVersion", secret.name, o)
                 /\ remoteValues' = IF o = "ok" THEN mapSet(remoteValues, key, latest)
                                    ELSE remoteValues
    /\ secIdx' = secIdx + 1
    /\ UNCHANGED <<pushVars, pc, inputVars, repos, listed, indexVars, tallyVars, loopVars,
                   folderSecrets, tuples, callVars>>

\* the comparison loops and the DIFF / OK result
ScanCompare ==
    /\ pc = "fetch"
    /\ secIdx > Len(folderSecrets)
    /\ IF hasDiffOf(localEntries, remoteKeys, remoteValues)
       THEN classify("DIFF")
       ELSE classify("OK")
    /\ envIdx' = envIdx + 1
    /\ pc' = "envs"
    /\ folderSecrets' = <<>>
    /\ secIdx' = 1
    /\ remoteKeys' = {}
    /\ remoteValues' = <<>>
    /\ UNCHANGED <<pushVars, inputVars, repos, listed, indexVars, repoIdx, envFiles, fileIdx,
                   localEntries, envsToCheck, calls, tuples, faults, callVars>>

\* the loop over repos is over: print the report
ScanReport ==
    /\ pc = "repos"
    /\ repoIdx > Len(repos)
    /\ pc' = "done"
    /\ UNCHANGED <<pushVars, inputVars, repos, listed, indexVars, tallyVars, loopVars, fetchVars,
                   calls, tuples, faults, callVars>>

Next ==
    \/ ScanListSecrets
    \/ ScanGetSecret
    \/ ScanRepo
    \/ ScanFile
    \/ ScanEnv
    \/ ScanAccess
    \/ ScanCompare
    \/ ScanReport

Spec == Init /\ [][Next]_vars

\* ---------------------------------------------------------------------
\* findGitRepositories on its own
\* ---------------------------------------------------------------------

\* largest maxDepth a direct call is given
MaxFindDepth == 3

PathX == Append(BasePath, <<"x">>)

PathXY == Append(PathX, <<"y">>)

PathXYC == Append(PathXY, <<"c">>)

PathC == Append(BasePath, <<"c">>)

PathHidden == Append(BasePath, <<".","h">>)

PathModules == Append(BasePath, NameNodeModules)

PathLink == Append(BasePath, <<"l">>)

PathY == Append(BasePath, <<"y">>)

\* a directory holding a .git directory
RepoAt(path) == {Dir(path), Dir(Append(path, NameGit))}

\* w/x/y and below
SubtreesXY ==
    {{}} \cup
    {{Dir(PathXY)} \cup git \cup below :
        git \in {{}, {Dir(Append(PathXY, NameGit))}},
        below \in {{}, RepoAt(PathXYC)}}

\* w/x and below; w/x may refuse to be listed
SubtreesX ==
    {{}} \cup
    {{[Dir(PathX) EXCEPT !.listable = ok]} \cup git \cup below :
        ok \in BOOLEAN,
        git \in {{}, {Dir(Append(PathX, NameGit))}},
        below \in SubtreesXY}

\* a symbolic link to a directory: the entry is no directory, lstat says link
Symlink(path) == [Dir(path) EXCEPT !.type = "symlink", !.lstat = "symlink"]

\* w/c: a repository, possibly one whose lstat fails, or a directory whose .git
\* is a file (worktree, submodule), a symbolic link, a directory that lstat
\* reports as a link, or one whose lstat fails
SubtreesC ==
    {{}, RepoAt(PathC),
     {[Dir(PathC) EXCEPT !.lstat = "fail"], Dir(Append(PathC, NameGit))},
     {Dir(PathC), File(Append(PathC, NameGit), <<"g">>, "tracked")},
     {Dir(PathC), Symlink(Append(PathC, NameGit))},
     {Dir(PathC), [Dir(Append(PathC, NameGit)) EXCEPT !.lstat = "symlink"]},
     {Dir(PathC), [Dir(Append(PathC, NameGit)) EXCEPT !.lstat = "fail"]}}

\* w/l: a symbolic link to a repository, or a directory entry that lstat
\* reports as a symbolic link
SubtreesLink ==
    {{},
     {Symlink(PathLink), Dir(Append(PathLink, NameGit))},
     {[Dir(PathLink) EXCEPT !.lstat = "symlink"], Dir(Append(PathLink, NameGit))}}

\* trees discovery is run on; the base path itself may refuse to be listed
FindTrees ==
    {{[Dir(BasePath) EXCEPT !.listable = ok]} \cup git \cup x \cup c \cup h \cup m \cup l \cup y :
        ok \in BOOLEAN,
        git \in {{}, {Dir(Append(BasePath, NameGit))}},
        x \in SubtreesX,
        c \in SubtreesC,
        h \in {{}, RepoAt(PathHidden)},
        m \in {{}, RepoAt(PathModules)},
        l \in SubtreesLink,
        y \in {{}, RepoAt(PathY)}}

InitFind ==
    /\ pc = "find"
    /\ fs \in FindTrees
    /\ store = <<>>
    /\ filterEnv = Null
    /\ maxDepth \in 0..MaxFindDepth
    /\ repos = <<>>
    /\ listed = <<>>
    /\ allSecrets = <<>>
    /\ getIdx = 1
    /\ secretsByFolderEnv = <<>>
    /\ results = <<>>
    /\ syncedCount = 0
    /\ diffCount = 0
    /\ newCount = 0
    /\ repoIdx = 1
    /\ envFiles = <<>>
    /\ fileIdx = 1
    /\ localEntries = <<>>
    /\ envsToCheck = <<>>
    /\ envIdx = 1
    /\ folderSecrets = <<>>
    /\ secIdx = 1
    /\ remoteKeys = {}
    /\ remoteValues = <<>>
    /\ calls = <<>>
    /\ tuples = <<>>
    /\ faults = 0
    /\ args = <<>>
    /\ ret = Null
    /\ lines = <<>>
    /\ lineIdx = 1
    /\ count = 0
    /\ before = <<>>

\* findGitRepositories(basePath, maxDepth)
FindRepos ==
    /\ pc = "find"
    /\ LET w == findWalk(fs, BasePath, maxDepth, 0)
       IN  repos' = w.repos /\ listed' = w.listed
    /\ pc' = "found"
    /\ UNCHANGED <<pushVars, inputVars, indexVars, tallyVars, loopVars, fetchVars, calls, tuples, faults, callVars>>

NextFind == FindRepos

SpecFind == InitFind /\ [][NextFind]_vars

\* ---------------------------------------------------------------------
\* Direct calls of the functions
\* ---------------------------------------------------------------------

\* the scan has not started and issues nothing: every variable of the scan
\* loop holds its initial value
ScanIdle ==
    /\ store = <<>>
    /\ filterEnv = Null
    /\ maxDepth = ScanMaxDepth
    /\ repos = <<>>
    /\ listed = <<>>
    /\ allSecrets = <<>>
    /\ getIdx = 1
    /\ secretsByFolderEnv = <<>>
    /\ results = <<>>
    /\ syncedCount = 0
    /\ diffCount = 0
    /\ newCount = 0
    /\ repoIdx = 1
    /\ envFiles = <<>>
    /\ fileIdx = 1
    /\ localEntries = <<>>
    /\ envsToCheck = <<>>
    /\ envIdx = 1
    /\ folderSecrets = <<>>
    /\ secIdx = 1
    /\ remoteKeys = {}
    /\ remoteValues = <<>>
    /\ calls = <<>>
    /\ tuples = <<>>
    /\ faults = 0
    /\ lines = <<>>
    /\ lineIdx = 1
    /\ count = 0
    /\ before = <<>>

\* ---------------------------------------------------------------------
\* findEnvFiles on its own
\* ---------------------------------------------------------------------

\* what git check-ignore may answer for a file: exit 0 (ignored), exit 1 (not
\* ignored), or a failure (no repository, git missing)
IgnoreAnswers == {"ignored", "tracked", "error"}

\* the ways one of the four names may be present under the repository
Candidates(name) ==
    {{}} \cup {{File(Append(RepoA, name), TextK1, a)} : a \in IgnoreAnswers}

\* repository w/aB with any of the four names (.env possibly a directory),
\* and possibly a file of another name or an env file one level further down
LocateTrees ==
    {RepoADirs \cup e \cup d \cup l \cup p \cup other :
        e \in Candidates(NameEnv) \cup {{Dir(Append(RepoA, NameEnv))}},
        d \in Candidates(NameDevVars),
        l \in Candidates(NameEnvLocal),
        p \in Candidates(NameEnvProduction),
        other \in {{},
                   {File(Append(RepoA, <<"c">>), TextK1, "ignored")},
                   {Dir(Append(RepoA, <<"x">>)),
                    File(Append(Append(RepoA, <<"x">>), NameEnv), TextK1, "ignored")}}}

InitLocate ==
    /\ pc = "locate"
    /\ fs \in LocateTrees
    /\ args = <<RepoA>>
    /\ ret = Null
    /\ ScanIdle

\* findEnvFiles(repoPath)
LocateEnvFiles ==
    /\ pc = "locate"
    /\ ret' = findEnvFiles(fs, args[1])
    /\ pc' = "located"
    /\ UNCHANGED <<pushVars, inputVars, repos, listed, indexVars, tallyVars, loopVars, fetchVars,
                   calls, tuples, faults, args>>

NextLocate == LocateEnvFiles

SpecLocate == InitLocate /\ [][NextLocate]_vars

\* ---------------------------------------------------------------------
\* The name codec on its own: makeSecretName, then getKeyFromSecret
\* ---------------------------------------------------------------------

\* the texts over an alphabet of at most n characters
Words(alphabet, n) == UNION {[1..m -> alphabet] : m \in 0..n}

\* longest key the codec is called with
MaxKeyLen == 3

\* the keys: the identifiers ([A-Za-z_][A-Za-z0-9_]*, what parseEnvFile and
\* push accept as a key) over p, K, _ and 1
CodecKeys ==
    {k \in Words({"p", "K", "_", "1"}, MaxKeyLen) :
        Len(k) >= 1 /\ k[1] \in IdStart /\ \A i \in 1..Len(k) : k[i] \in IdChar}

\* normalized folders, one of them with an underscore
CodecFolders == {FolderA, FolderC, <<"a","_","b">>}

\* no environment, --env= (empty), and environment tokens of lower-case letters
CodecEnvs == {Null, <<>>, EnvD, <<"d","e">>}

InitCodec ==
    /\ pc = "encode"
    /\ fs = {}
    /\ args \in {<<f, k, e>> : f \in CodecFolders, k \in CodecKeys, e \in CodecEnvs}
    /\ ret = Null
    /\ ScanIdle

\* makeSecretName(folder, key, env)
EncodeName ==
    /\ pc = "encode"
    /\ ret' = makeSecretName(args[1], args[2], args[3])
    /\ pc' = "decode"
    /\ UNCHANGED <<pushVars, inputVars, repos, listed, indexVars, tallyVars, loopVars, fetchVars,
                   calls, tuples, faults, args>>

\* getKeyFromSecret(secretName, folderName) on the name just made
DecodeName ==
    /\ pc = "decode"
    /\ ret' = getKeyFromSecret(ret, args[1])
    /\ pc' = "decoded"
    /\ UNCHANGED <<pushVars, inputVars, repos, listed, indexVars, tallyVars, loopVars, fetchVars,
                   calls, tuples, faults, args>>

NextCodec ==
    \/ EncodeName
    \/ DecodeName

SpecCodec == InitCodec /\ [][NextCodec]_vars

\* ---------------------------------------------------------------------
\* normalizeFolder on its own, applied to a name and then to its own result
\* ---------------------------------------------------------------------

\* longest directory name normalizeFolder is called with
MaxNameLen == 4

\* a lower-case letter, an upper-case letter, a digit, the two punctuation
\* characters the slug keeps, and two it does not
NameAlphabet == {"a", "B", "1", "_", "-", ".", " "}

InitNormalize ==
    /\ pc = "normalize"
    /\ fs = {}
    /\ args \in {<<x>> : x \in Words(NameAlphabet, MaxNameLen)}
    /\ ret = Null
    /\ ScanIdle

\* normalizeFolder(name), then normalizeFolder of what it returned; args keeps
\* the name and the first result
Normalize ==
    /\ pc \in {"normalize", "once"}
    /\ ret' = normalizeFolder(IF pc = "normalize" THEN args[1] ELSE ret)
    /\ args' = IF pc = "normalize" THEN args ELSE Append(args, ret)
    /\ pc' = IF pc = "normalize" THEN "once" ELSE "twice"
    /\ UNCHANGED <<pushVars, inputVars, repos, listed, indexVars, tallyVars, loopVars, fetchVars,
                   calls, tuples, faults>>

NextNormalize == Normalize

SpecNormalize == InitNormalize /\ [][NextNormalize]_vars

\* ---------------------------------------------------------------------
\* parseEnvFile on its own
\* ---------------------------------------------------------------------

\* longest text of the exhaustive part of the parser's inputs
MaxTextLen == 4

\* most lines of the part of the parser's inputs put together from lines
MaxLines == 2

ParseAlphabet == {"A", "=", "#", "\n", " ", Backtick}

\* lines: blank, comment, assignments (plain, quoted, backtick-delimited, in
\* a comment, unclosed, with a carriage return, with a quote at one end, with
\* two different quotes, with two layers of quotes, with a backslash before a
\* backtick inside the block), and lines of no known form
LineFragments ==
    {<<>>,
     <<" ", " ">>,
     <<"#", " ", "c">>,
     <<"A", "=", "1">>,
     <<" ", "B", " ", "=", " ", "\"", "q", "\"">>,
     <<"A">>,
     <<"=", "1">>,
     <<"1", "A", "=", "2">>,
     <<"A", "=", Backtick, "x", Backtick>>,
     <<"#", "A", "=", Backtick, "x", Backtick>>,
     <<"A", "=", Backtick, "x">>,
     <<"y", Backtick>>,
     <<"B", " ", "A", "=", Backtick, "x", Backtick, "=", "1">>,
     <<"#", "c", "\r", "A", "=", Backtick, "x", Backtick>>,
     <<"A", "=", "1", "\r">>,
     <<"A", "=", "\"", "x">>,
     <<"A", "=", "x", "'">>,
     <<"A", "=", "'", "x", "\"">>,
     <<"A", "=", "\"", "\"", "x", "\"", "\"">>,
     <<"A", "=", "'", "x", "'">>,
     <<"A", "=", Backtick, "x", "\\", Backtick, "y", Backtick>>}

\* the texts parseEnvFile is called with
ParseTexts ==
    Words(ParseAlphabet, MaxTextLen)
    \cup {join(ls, "\n") : ls \in UNION {[1..n -> LineFragments] : n \in 1..MaxLines}}

InitParse ==
    /\ pc = "parse"
    /\ fs = {}
    /\ args \in {<<c>> : c \in ParseTexts}
    /\ ret = Null
    /\ ScanIdle

\* parseEnvFile(content)
ParseFile ==
    /\ pc = "parse"
    /\ ret' = parseEnvFile(args[1])
    /\ pc' = "parsed"
    /\ UNCHANGED <<pushVars, inputVars, repos, listed, indexVars, tallyVars, loopVars, fetchVars,
                   calls, tuples, faults, args>>

NextParse == ParseFile

SpecParse == InitParse /\ [][NextParse]_vars

\* ---------------------------------------------------------------------
\* compareValues on its own
\* ---------------------------------------------------------------------

\* longest value of the exhaustive part of the comparison's inputs
MaxValueLen == 3

ValueAlphabet == {"x", "X", " ", "\r", "\n"}

\* values with line endings and white space inside and at the ends
ValueSamples ==
    {<<>>,
     <<"x">>,
     <<"X">>,
     <<"x", "\n">>,
     <<"x", "\r", "\n">>,
     <<" ", "x">>,
     <<"x", "x">>,
     <<"x", " ", "x">>,
     <<"x", "\t", "x">>,
     <<"x", "\n", "x">>,
     <<"x", "\r", "\n", "x">>,
     <<"x", "\r", "x">>}

InitCompare ==
    /\ pc = "compare"
    /\ fs = {}
    /\ args \in {<<a, b, c>> : a \in Words(ValueAlphabet, MaxValueLen),
                               b \in ValueSamples, c \in ValueSamples}
    /\ ret = Null
    /\ ScanIdle

\* compareValues on the pairs of three values a, b, c
Compare ==
    /\ pc = "compare"
    /\ ret' = [aa |-> compareValues(args[1], args[1]),
               ab |-> compareValues(args[1], args[2]),
               ba |-> compareValues(args[2], args[1]),
               bc |-> compareValues(args[2], args[3]),
               ac |-> compareValues(args[1], args[3])]
    /\ pc' = "compared"
    /\ UNCHANGED <<pushVars, inputVars, repos, listed, indexVars, tallyVars, loopVars, fetchVars,
                   calls, tuples, faults, args>>

NextCompare == Compare

SpecCompare == InitCompare /\ [][NextCompare]_vars

\* ---------------------------------------------------------------------
\* The scan over one repository whose env files are of every kind
\* ---------------------------------------------------------------------

TextDup == <<"K","=","1","\n","K","=","2">>

TextBlank == <<" ","\n">>

\* readable with entries, with a key twice, blank, comments only, unreadable
FileContents == {TextK1, TextDup, TextBlank, TextComment, Null}

\* repository w/aB with an optional .env and an optional .dev.vars
FileTrees ==
    {RepoADirs \cup envA \cup devA :
        envA \in {{}} \cup {{File(Append(RepoA, NameEnv), c, "ignored")} : c \in FileContents},
        devA \in {{}} \cup {{File(Append(RepoA, NameDevVars), c, "tracked")} :
                                c \in FileContents}}

\* stores: empty, secrets of the repository's folder with and without an
\* environment, a secret of another folder only
FileStores ==
    {pick(SecretUniverse, S, 1) : S \in {{}, {1}, {7}, {10}, {1, 7}, {1, 10}}}

InitFiles ==
    /\ pc = "start"
    /\ fs \in FileTrees
    /\ store \in FileStores
    /\ filterEnv \in {Null, <<>>, EnvD}
    /\ maxDepth = ScanMaxDepth
    /\ repos = <<>>
    /\ listed = <<>>
    /\ allSecrets = <<>>
    /\ getIdx = 1
    /\ secretsByFolderEnv = <<>>
    /\ results = <<>>
    /\ syncedCount = 0
    /\ diffCount = 0
    /\ newCount = 0
    /\ repoIdx = 1
    /\ envFiles = <<>>
    /\ fileIdx = 1
    /\ localEntries = <<>>
    /\ envsToCheck = <<>>
    /\ envIdx = 1
    /\ folderSecrets = <<>>
    /\ secIdx = 1
    /\ remoteKeys = {}
    /\ remoteValues = <<>>
    /\ calls = <<>>
    /\ tuples = <<>>
    /\ faults = 0
    /\ args = <<>>
    /\ ret = Null
    /\ lines = <<>>
    /\ lineIdx = 1
    /\ count = 0
    /\ before = <<>>

SpecFiles == InitFiles /\ [][Next]_vars

\* ---------------------------------------------------------------------
\* The push command (runCli, case "push"), and a scan run after it
\* ---------------------------------------------------------------------

\* config.defaultEnvironment when neither DEFAULT_ENVIRONMENT nor the
\* config file sets it
DefaultEnvironment == <<"d","e","v">>

\* process.cwd() of the push command: the repository w/aB
Cwd == RepoA

\* const targetEnv = parsed.env || config.defaultEnvironment
targetEnv == IF truthy(filterEnv) THEN filterEnv ELSE DefaultEnvironment

\* normalizeFolder(parsed.positional[1] || basename(process.cwd()))
pushFolder == normalizeFolder(IF truthy(args[1]) THEN args[1] ELSE basename(Cwd))

\* parsed.positional[2] || ".env", resolved against the working directory
pushEnvFile == Append(Cwd, IF truthy(args[2]) THEN args[2] ELSE NameEnv)

\* line.match(/^([A-Z_][A-Z0-9_]*)=(.*)$/i); . refuses line terminators
pushMatch(line) ==
    IF Len(line) = 0 \/ line[1] \notin IdStart THEN NoMatch
    ELSE LET b == skipWhile(line, 2, IdChar)
         IN  IF b > Len(line) \/ line[b] # "=" THEN NoMatch
             ELSE IF \E i \in (b + 1)..Len(line) : line[i] \in LineTerminator THEN NoMatch
             ELSE [found |-> TRUE,
                   key   |-> SubSeq(line, 1, b - 1),
                   value |-> SubSeq(line, b + 1, Len(line))]

\* if (!line.trim() || line.startsWith("#")) continue; and lines without a match
pushSkips(line) == trim(line) = <<>> \/ startsWith(line, <<"#">>) \/ ~pushMatch(line).found

\* the line the loop stands at, its key and value, and the secret id
pushLine == lines[lineIdx]

pushKey == pushMatch(pushLine).key

pushValue == pushMatch(pushLine).value

pushSecretId == makeSecretName(pushFolder, pushKey, targetEnv)

storeHas(name) == \E i \in 1..Len(store) : store[i].name = name

\* the store after updateSecret({secret: {name, labels}, updateMask: labels})
relabelled(name) ==
    [i \in 1..Len(store) |->
        IF store[i].name = name
        THEN [store[i] EXCEPT !.folder = pushFolder, !.env = targetEnv]
        ELSE store[i]]

\* the store after addSecretVersion({parent: name, payload: value})
versionAdded(name, value) ==
    [i \in 1..Len(store) |->
        IF store[i].name = name THEN [store[i] EXCEPT !.latest = value] ELSE store[i]]

\* the store after createSecret({parent, secretId, secret: {replication, labels}})
created(name) ==
    Append(store, [name |-> name, folder |-> pushFolder, env |-> targetEnv,
                   latest |-> Null])

scanVars == <<repos, listed, indexVars, tallyVars, loopVars, fetchVars, tuples>>

\* the existence check of the file, readFileSync and content.split("\n");
\* a missing file ends the command (exit 1), a failing read is thrown to
\* the catch of runCli
PushRead ==
    /\ pc = "push"
    /\ IF existsSync(fs, pushEnvFile) /\ nodeAt(fs, pushEnvFile).content # Null
       THEN /\ lines' = split(nodeAt(fs, pushEnvFile).content, "\n")
            /\ pc' = "pushLine"
       ELSE /\ lines' = lines
            /\ pc' = "failed"
    /\ before' = store
    /\ UNCHANGED <<inputVars, scanVars, calls, faults, callVars, lineIdx, count>>

\* a blank line, a comment, a line that is no assignment: continue
PushSkipLine ==
    /\ pc = "pushLine"
    /\ lineIdx <= Len(lines)
    /\ pushSkips(pushLine)
    /\ lineIdx' = lineIdx + 1
    /\ UNCHANGED <<pc, inputVars, scanVars, calls, faults, callVars, lines, count, before>>

\* await client.getSecret({name: secretName}) inside try; every error
\* lands in the bare catch
PushGetSecret ==
    /\ pc = "pushLine"
    /\ lineIdx <= Len(lines)
    /\ ~pushSkips(pushLine)
    /\ \E o \in (Outcomes \ {"ok"})
                  \cup {IF storeHas(pushSecretId) THEN "ok" ELSE "notFound"} :
          /\ logCall("getSecret", pushSecretId, o)
          /\ pc' = IF o = "ok" THEN "pushUpdate" ELSE "pushCreate"
    /\ UNCHANGED <<inputVars, scanVars, callVars, pushVars>>

\* await client.updateSecret(...) inside try
PushUpdateSecret ==
    /\ pc = "pushUpdate"
    /\ \E o \in Outcomes :
          /\ logCall("updateSecret", pushSecretId, o)
          /\ store' = IF o = "ok" THEN relabelled(pushSecretId) ELSE store
          /\ pc' = IF o = "ok" THEN "pushAdd" ELSE "pushCreate"
    /\ UNCHANGED <<fs, filterEnv, maxDepth, scanVars, callVars, pushVars>>

\* await client.addSecretVersion(...) inside try, then count++
PushAddVersion ==
    /\ pc = "pushAdd"
    /\ \E o \in Outcomes :
          /\ logCall("addSecretVersion", pushSecretId, o)
          /\ IF o = "ok"
             THEN /\ store' = versionAdded(pushSecretId, pushValue)
                  /\ count' = count + 1
                  /\ lineIdx' = lineIdx + 1
                  /\ pc' = "pushLine"
             ELSE /\ UNCHANGED <<store, count, lineIdx>>
                  /\ pc' = "pushCreate"
    /\ UNCHANGED <<fs, filterEnv, maxDepth, scanVars, callVars, lines, before>>

\* await client.createSecret(...) inside catch: an error here is thrown to
\* the catch of runCli
PushCreateSecret ==
    /\ pc = "pushCreate"
    /\ \E o \in (Outcomes \ {"ok"})
                  \cup {IF storeHas(pushSecretId) THEN "alreadyExists" ELSE "ok"} :
          /\ logCall("createSecret", pushSecretId, o)
          /\ store' = IF o = "ok" THEN created(pushSecretId) ELSE store
          /\ pc' = IF o = "ok" THEN "pushCreateAdd" ELSE "failed"
    /\ UNCHANGED <<fs, filterEnv, maxDepth, scanVars, callVars, pushVars>>

\* await client.addSecretVersion(...) inside catch, then count++
PushCreateAddVersion ==
    /\ pc = "pushCreateAdd"
    /\ \E o \in Outcomes :
          /\ logCall("addSecretVersion", pushSecretId, o)
          /\ IF o = "ok"
             THEN /\ store' = versionAdded(pushSecretId, pushValue)
                  /\ count' = count + 1
                  /\ lineIdx' = lineIdx + 1
                  /\ pc' = "pushLine"
             ELSE /\ UNCHANGED <<store, count, lineIdx>>
                  /\ pc' = "failed"
    /\ UNCHANGED <<fs, filterEnv, maxDepth, scanVars, callVars, lines, before>>

\* the loop is over: print the count
PushDone ==
    /\ pc = "pushLine"
    /\ lineIdx > Len(lines)
    /\ pc' = "pushed"
    /\ UNCHANGED <<inputVars, scanVars, calls, faults, callVars, pushVars>>

\* the next command of the session: scan <base path> --env <the environment
\* the push went to>
ScanAfterPush ==
    /\ pc = "pushed"
    /\ filterEnv' = targetEnv
    /\ pc' = "start"
    /\ UNCHANGED <<fs, store, maxDepth, scanVars, calls, faults, callVars, pushVars>>

EnvD1 == <<"d","1">>

KeyDK == <<"d","_","K">>

FolderAD == <<"a","-","b","_","d">>

EnvP == <<"p">>

TextQuoted == <<"K","=","\"","x","\"">>

TextTwoKeys == <<"K","=","1","\n","p","_","K","=","3">>

TextCommentThenKey == <<"#","K","=","0","\n","K","=","1"," ">>

TextIndented == <<" ","K","=","1">>

\* what the pushed file holds (Null: it cannot be read)
PushContents ==
    {TextK1, TextTwoKeys, TextQuoted, TextCommentThenKey, TextIndented, TextDup, Null}

\* the file names push is given
PushFileNames == {EnvFileNames[i] : i \in 1..Len(EnvFileNames)}

\* the working directory is the repository w/aB, with or without the file
PushTrees ==
    {RepoADirs} \cup
    {RepoADirs \cup {File(Append(RepoA, n), c, "ignored")} :
        n \in PushFileNames, c \in PushContents}

\* stores the push meets: empty; the secret of (a-b, d, K) already there;
\* a secret of another folder; secrets of the same folder without an
\* environment whose keys are K and d_K; a secret of folder a-b_d
PushStores ==
    {<<>>,
     <<Secret(FolderA, EnvD, KeyK, <<"2">>)>>,
     <<Secret(FolderC, EnvE, KeyK, <<"2">>)>>,
     <<Secret(FolderA, Null, KeyK, <<"2">>)>>,
     <<Secret(FolderA, Null, KeyDK, <<"2">>)>>,
     <<Secret(FolderAD, EnvP, KeyK, <<"2">>)>>,
     <<Secret(FolderA, EnvD, KeyK, <<"2">>), Secret(FolderC, EnvE, KeyK, <<"2">>)>>}

InitPush ==
    /\ pc = "push"
    /\ fs \in PushTrees
    /\ store \in PushStores
    /\ filterEnv \in {Null, EnvD, EnvD1}
    /\ args \in {<<Null, n>> : n \in {Null} \cup PushFileNames}
                  \cup {<<FolderC, Null>>}
    /\ ret = Null
    /\ maxDepth = ScanMaxDepth
    /\ repos = <<>>
    /\ listed = <<>>
    /\ allSecrets = <<>>
    /\ getIdx = 1
    /\ secretsByFolderEnv = <<>>
    /\ results = <<>>
    /\ syncedCount = 0
    /\ diffCount = 0
    /\ newCount = 0
    /\ repoIdx = 1
    /\ envFiles = <<>>
    /\ fileIdx = 1
    /\ localEntries = <<>>
    /\ envsToCheck = <<>>
    /\ envIdx = 1
    /\ folderSecrets = <<>>
    /\ secIdx = 1
    /\ remoteKeys = {}
    /\ remoteValues = <<>>
    /\ calls = <<>>
    /\ tuples = <<>>
    /\ faults = 0
    /\ lines = <<>>
    /\ lineIdx = 1
    /\ count = 0
    /\ before = <<>>

NextPush ==
    \/ PushRead
    \/ PushSkipLine
    \/ PushGetSecret
    \/ PushUpdateSecret
    \/ PushAddVersion
    \/ PushCreateSecret
    \/ PushCreateAddVersion
    \/ PushDone
    \/ ScanAfterPush
    \/ Next

SpecPush == InitPush /\ [][NextPush]_vars

\* ---------------------------------------------------------------------
\* The tools secrets_push and secrets_pull of the MCP server
\* ---------------------------------------------------------------------

\* makeSecretName(folder, key) of the MCP server
mcpMakeSecretName(folder, key) == folder \o <<"_">> \o key

\* getKeyFromSecret(secretName) of the MCP server
mcpGetKeyFromSecret(secretName) == join(Tail(split(secretName, "_")), "_")

\* basename(process.cwd()) of the MCP server
currentFolder == basename(Cwd)

\* args.folder || currentFolder
mcpFolderArg == IF truthy(args[1]) THEN args[1] ELSE currentFolder

\* folderRaw.toLowerCase().replace(/[^a-z0-9_-]/g, "-")
mcpPushFolder ==
    LET lowered == toLowerCase(mcpFolderArg)
    IN  [i \in 1..Len(lowered) |->
            IF lowered[i] \in Lower \cup Digit \cup {"_", "-"} THEN lowered[i] ELSE "-"]

\* the entries secrets_push reads from envContent: the loop over the
\* multi-line matches, then the loop over remaining.split("\n"), the same
\* statements as parseEnvFile
mcpEntries(envContent) == parseEnvFile(envContent)

RECURSIVE mcpUpload(_, _, _)
\* the store after the upload loop over entries: getSecret, then
\* addSecretVersion, or on NOT_FOUND createSecret with labels {folder} and
\* addSecretVersion
mcpUpload(st, folder, entries) ==
    IF Len(entries) = 0 THEN st
    ELSE LET name == mcpMakeSecretName(folder, entries[1].key)
             next == IF \E i \in 1..Len(st) : st[i].name = name
                     THEN [i \in 1..Len(st) |->
                             IF st[i].name = name
                             THEN [st[i] EXCEPT !.latest = entries[1].value]
                             ELSE st[i]]
                     ELSE Append(st, [name |-> name, folder |-> folder, env |-> Null,
                                      latest |-> entries[1].value])
         IN  mcpUpload(next, folder, Tail(entries))

\* the text secrets_pull returns when no secret carries the folder label
mcpNoSecrets(folder) == <<"no secrets in folder ">> \o folder

\* envLines.join("\n") of secrets_pull: one key=value per secret whose label
\* folder is the folder argument (secret ids hold no "/")
mcpPullText(st, folder) ==
    LET folderSecretsOf == SelectSeq(st, LAMBDA sec : sec.folder = folder)
    IN  IF Len(folderSecretsOf) = 0 THEN mcpNoSecrets(folder)
        ELSE join([i \in 1..Len(folderSecretsOf) |->
                      mcpGetKeyFromSecret(folderSecretsOf[i].name) \o <<"=">>
                         \o folderSecretsOf[i].latest],
                  "\n")

\* the tool secrets_push: an empty envContent is answered with an error;
\* a remote call that fails with another error than NOT_FOUND is thrown to
\* the catch of the request handler
McpPush ==
    /\ pc = "mcp"
    /\ IF ~truthy(args[2])
       THEN /\ pc' = "mcpError"
            /\ UNCHANGED <<store, calls, faults>>
       ELSE \E o \in Outcomes :
               /\ logCall("secrets_push", mcpPushFolder, o)
               /\ store' = IF o = "ok"
                           THEN mcpUpload(store, mcpPushFolder, mcpEntries(args[2]))
                           ELSE store
               /\ pc' = IF o = "ok" THEN "mcpPushed" ELSE "mcpError"
    /\ UNCHANGED <<fs, filterEnv, maxDepth, scanVars, callVars, pushVars>>

\* the tool secrets_pull, called with the same folder argument
McpPull ==
    /\ pc = "mcpPushed"
    /\ \E o \in Outcomes :
          /\ logCall("secrets_pull", mcpFolderArg, o)
          /\ ret' = IF o = "ok" THEN mcpPullText(store, mcpFolderArg) ELSE ret
          /\ pc' = IF o = "ok" THEN "mcpPulled" ELSE "mcpError"
    /\ UNCHANGED <<inputVars, scanVars, args, pushVars>>

FolderAB == <<"a","b">>

FolderCamel == <<"a","B">>

FolderUnderscore == <<"a","_","b">>

\* folder arguments: lower case, with a hyphen, with an upper-case letter,
\* with an underscore, with a dot, none
McpFolders == {FolderAB, FolderA, FolderCamel, FolderUnderscore, <<"a",".","b">>, Null}

TextMultiline == <<"A","=",Backtick,"x","\n","y",Backtick,"\n","K","=","1">>

\* envContent arguments
McpContents ==
    {TextK1, TextPK1, TextTwoKeys, TextQuoted, TextCommentThenKey, TextIndented,
     TextDup, TextComment, TextKEmpty, TextMultiline, <<>>}

InitMcp ==
    /\ pc = "mcp"
    /\ fs = {}
    /\ args \in {<<f, c>> : f \in McpFolders, c \in McpContents}
    /\ ret = Null
    /\ ScanIdle

NextMcp == McpPush \/ McpPull

SpecMcp == InitMcp /\ [][NextMcp]_vars

\* ---------------------------------------------------------------------
\* What the claims speak about, read off the inputs (not off the loop)
\* ---------------------------------------------------------------------

Range(xs) == {xs[i] : i \in 1..Len(xs)}

NoDup(xs) == \A i, j \in 1..Len(xs) : xs[i] = xs[j] => i = j

\* the environment label of a stored secret, Null when it carries none
labelEnv(sec) == IF truthy(sec.env) THEN sec.env ELSE Null

\* the secrets the store holds under (folder, env)
RemoteGroup(folder, env) ==
    {sec \in Range(store) : sec.folder = folder /\ labelEnv(sec) = env}

\* the key k under which a grouped secret was stored: its name is
\* makeSecretName(folder, k, environment)
StoredKey(sec) == slice(sec.name, Len(makeSecretName(sec.folder, <<>>, sec.env)))

TupleFolder(t) == normalizeFolder(basename(t.repoPath))

TupleGroup(t) == RemoteGroup(TupleFolder(t), IF truthy(t.env) THEN t.env ELSE Null)

TupleLocal(t) == parseEnvFile(nodeAt(fs, Append(t.repoPath, t.file)).content)

\* (a) a local key that is not stored remotely in the group
DriftLocalOnly(t) ==
    \E e \in Range(TupleLocal(t)) : \A sec \in TupleGroup(t) : StoredKey(sec) # e.key

\* (b) a local value that differs from the remote latest value of its key
DriftValue(t) ==
    \E e \in Range(TupleLocal(t)) : \E sec \in TupleGroup(t) :
        /\ StoredKey(sec) = e.key
        /\ sec.latest # Null
        /\ ~compareValues(e.value, sec.latest)

\* (c) a key stored remotely in the group that no local entry has
DriftRemoteOnly(t) ==
    \E sec \in TupleGroup(t) : \A e \in Range(TupleLocal(t)) : e.key # StoredKey(sec)

\* every local value equals the remote latest value of its key
ValuesAgree(t) ==
    \A e \in Range(TupleLocal(t)) : \E sec \in TupleGroup(t) :
        /\ StoredKey(sec) = e.key
        /\ sec.latest # Null
        /\ compareValues(e.value, sec.latest)

\* C1: a tuple is reported NEW exactly when the store holds no secret under
\* (normalizeFolder(repository name), environment)
C1_NewIffGroupEmpty ==
    \A i \in 1..Len(results) :
        (results[i].status = "NEW") <=> (TupleGroup(tuples[i]) = {})

\* a scan that reported one tuple NEW although the store is not empty, and
\* another tuple not NEW
C1_Witness ==
    \E i, j \in 1..Len(results) :
        /\ results[i].status = "NEW" /\ TupleGroup(tuples[i]) = {}
        /\ results[j].status # "NEW" /\ TupleGroup(tuples[j]) # {}

\* C2: for a tuple whose remote group is not empty, the status is DIFF whenever
\* a local key is not stored remotely, a local value differs from the remote
\* latest value of its key, or a stored key has no local entry (OK is never
\* reported under drift); stated for scans in which no remote call met an
\* error other than NotFound
C2_DriftIsDiff ==
    faults = 0 =>
    \A i \in 1..Len(results) :
        ( /\ TupleGroup(tuples[i]) # {}
          /\ \/ DriftLocalOnly(tuples[i])
             \/ DriftValue(tuples[i])
             \/ DriftRemoteOnly(tuples[i]) )
        => results[i].status = "DIFF"

\* C3: for a tuple whose remote group is not empty, when the stored keys are
\* exactly the local keys and every local value equals the remote latest value
\* of its key, the status is OK; stated for scans in which no remote call met
\* an error other than NotFound
C3_NoDriftIsOk ==
    faults = 0 =>
    \A i \in 1..Len(results) :
        ( /\ TupleGroup(tuples[i]) # {}
          /\ ~DriftLocalOnly(tuples[i])
          /\ ~DriftRemoteOnly(tuples[i])
          /\ ValuesAgree(tuples[i]) )
        => results[i].status = "OK"

\* C4: a NotFound on fetching a secret's latest value does not stop the scan,
\* and the tuple whose group holds that secret is classified DIFF, whatever
\* the local value of the key
C4_NotFoundIsDiff ==
    /\ (\E i \in 1..Len(calls) : calls[i].outcome = "notFound" /\ faults = 0)
          => pc # "failed"
    /\ \A i \in 1..Len(results) :
          (\E sec \in TupleGroup(tuples[i]) : sec.latest = Null)
             => results[i].status = "DIFF"

\* C5: a remote call that fails with an error other than NotFound ends the
\* scan: from the failing call on the invocation is failed and classifies
\* nothing more
C5_OtherErrorAborts ==
    \A i \in 1..Len(calls) :
        calls[i].outcome = "denied"
           => /\ pc = "failed"
              /\ Len(results) <= (IF calls[i].op = "accessSecretVersion"
                                  THEN calls[i].tuple - 1 ELSE calls[i].tuple)

\* the environments a file of that folder is to be checked against
ExpectedEnvs(folder) ==
    IF truthy(filterEnv) THEN {filterEnv}
    ELSE {Null} \cup {sec.env : sec \in {x \in Range(store) : x.folder = folder /\ truthy(x.env)}}

\* C6: the environments checked for an env file are exactly {filter} when a
\* filter was given, else exactly the default (no environment) and every
\* environment label found in the store under the repository's normalized
\* folder, each once, none from another folder
C6_EnvsToCheck ==
    /\ pc \in {"envs", "fetch"} =>
          /\ NoDup(envsToCheck)
          /\ Range(envsToCheck) = ExpectedEnvs(normalizedFolder)
    /\ pc = "done" =>
          \A t \in Range(tuples) :
              {u.env : u \in {v \in Range(tuples) : v.repoPath = t.repoPath /\ v.file = t.file}}
                 = ExpectedEnvs(TupleFolder(t))

\* an unfiltered scan that checked a file against the default and a labelled
\* environment while the store also holds an environment of another folder
C6_Witness ==
    /\ pc = "done"
    /\ ~truthy(filterEnv)
    /\ \E t, u \in Range(tuples) :
          t.repoPath = u.repoPath /\ t.file = u.file /\ t.env = Null /\ u.env = EnvD
    /\ \E sec \in Range(store) : sec.folder = FolderC /\ sec.env = EnvE

\* the repositories of the tree, and per repository the env files that yield
\* at least one parsed entry
ExpectedRepos ==
    {dirname(n.path) : n \in {m \in fs : basename(m.path) = NameGit /\ m.type = "dir"}}

ExpectedFiles(r) ==
    {f \in Range(EnvFileNames) :
        /\ existsSync(fs, Append(r, f))
        /\ nodeAt(fs, Append(r, f)).content # Null
        /\ Len(parseEnvFile(nodeAt(fs, Append(r, f)).content)) >= 1}

ExpectedTuples ==
    UNION {UNION {{[repoPath |-> r, file |-> f, env |-> e] :
                      e \in ExpectedEnvs(normalizeFolder(basename(r)))} :
                  f \in ExpectedFiles(r)} :
           r \in ExpectedRepos}

\* the (repository, file, environment) fields of a result
ResultFields(r) == <<r.repo, r.file, r.env>>

\* no tuple is evaluated twice and no remote call is issued twice for the
\* same purpose
NoRetry ==
    /\ NoDup(tuples)
    /\ \A i, j \in 1..Len(calls) :
          ( /\ i # j
            /\ calls[i].op = calls[j].op
            /\ calls[i].name = calls[j].name
            /\ calls[i].tuple = calls[j].tuple ) => FALSE

\* one result per expected tuple, in the order of evaluation
OnePerTuple ==
    /\ Len(results) = Len(tuples)
    /\ Range(tuples) = ExpectedTuples
    /\ \A i \in 1..Len(results) :
          /\ results[i].repo = basename(tuples[i].repoPath)
          /\ results[i].file = tuples[i].file
          /\ results[i].env = (IF truthy(tuples[i].env) THEN tuples[i].env ELSE DefaultLabel)

\* C7 as stated: after a completed scan there is exactly one result per tuple
\* with at least one parsed entry, none else, nothing evaluated or called
\* twice, and no two results carry the same (repository, file, environment)
C7_Original ==
    /\ NoRetry
    /\ pc = "done" =>
          /\ OnePerTuple
          /\ \A i, j \in 1..Len(results) :
                ResultFields(results[i]) = ResultFields(results[j]) => i = j

\* C7 amended: as above, but two results carry the same (repository, file,
\* environment) fields only when they belong to two repositories at
\* different paths that have the same directory name
C7_OneResultPerTuple ==
    /\ NoRetry
    /\ pc = "done" =>
          /\ OnePerTuple
          /\ \A i, j \in 1..Len(results) :
                (ResultFields(results[i]) = ResultFields(results[j]) /\ i # j)
                   => /\ tuples[i].repoPath # tuples[j].repoPath
                      /\ basename(tuples[i].repoPath) = basename(tuples[j].repoPath)

\* a completed scan over two repositories of the same name, one of which has
\* an env file without entries, with several results
C7_Witness ==
    /\ pc = "done"
    /\ Len(results) >= 3
    /\ \E i, j \in 1..Len(results) :
          i # j /\ ResultFields(results[i]) = ResultFields(results[j])
    /\ \E n \in fs : n.type = "file" /\ n.content = TextComment

ReadOps == {"listSecrets", "getSecret", "accessSecretVersion"}

\* C8: no step of a scan, failed or not, changes the remote store or the
\* filesystem, and every remote call a scan issues is a read
C8_ScanReadOnly ==
    [][ /\ store' = store
        /\ fs' = fs
        /\ \A i \in 1..Len(calls') : calls'[i].op \in ReadOps ]_vars

\* a completed scan that listed, read labels and fetched values
C8_Witness ==
    /\ pc = "done"
    /\ \A op \in ReadOps : \E i \in 1..Len(calls) : calls[i].op = op
    /\ Len(results) >= 1

CountStatus(status) == Cardinality({i \in 1..Len(results) : results[i].status = status})

\* C9: at every point the three counters equal the numbers of OK, DIFF and
\* NEW results, so their sum is the length of the result list
C9_CountersTally ==
    /\ syncedCount = CountStatus("OK")
    /\ diffCount = CountStatus("DIFF")
    /\ newCount = CountStatus("NEW")
    /\ syncedCount + diffCount + newCount = Len(results)

\* a completed scan with at least one result of each status
C9_Witness ==
    /\ pc = "done"
    /\ syncedCount >= 1 /\ diffCount >= 1 /\ newCount >= 1

\* number of directory levels of a path below the base path
Depth(path) == Len(path) - Len(BasePath)

\* the child directories of a listed directory that the walk does not skip
Descendable(dir) ==
    {n.path : n \in {m \in fs :
        /\ Len(m.path) = Len(dir) + 1
        /\ dirname(m.path) = dir
        /\ m.type = "dir"
        /\ m.lstat = "dir"
        /\ basename(m.path)[1] # "."
        /\ basename(m.path) # NameNodeModules}}

ListedPaths == {listed[i].path : i \in 1..Len(listed)}

\* C10: findGitRepositories(base, maxDepth) returns a root d levels below base
\* only if d <= maxDepth; a directory at depth maxDepth is still listed (and a
\* .git directly in it found), no directory deeper than maxDepth is listed
C10_DepthBound ==
    pc = "found" =>
       /\ \A r \in Range(repos) : Depth(r) <= maxDepth
       /\ \A l \in Range(listed) : l.depth = Depth(l.path) /\ l.depth <= maxDepth
       /\ BasePath \in ListedPaths
       /\ \A dir \in ListedPaths :
             canList(fs, dir) =>
                /\ \A sub \in Descendable(dir) :
                      (sub \in ListedPaths) <=> (Depth(sub) <= maxDepth)
                /\ ( /\ existsSync(fs, Append(dir, NameGit))
                     /\ nodeAt(fs, Append(dir, NameGit)).type = "dir"
                     /\ nodeAt(fs, Append(dir, NameGit)).lstat = "dir" )
                      => dir \in Range(repos)

\* maxDepth = 0 on a tree with .git directly under base and .git two levels
\* down (in w/x): base is returned, w/x is neither listed nor returned
C10_Witness ==
    /\ pc = "found"
    /\ maxDepth = 0
    /\ BasePath \in Range(repos)
    /\ canList(fs, PathX)
    /\ existsSync(fs, Append(PathX, NameGit))
    /\ PathX \notin Range(repos)
    /\ PathX \notin ListedPaths

\* the entry at that path is one the walk passes over: a hidden directory,
\* node_modules, no directory (a file or a symbolic link), a symbolic link
\* according to lstat, or an entry whose lstat fails
SkippedEntry(path) ==
    \/ basename(path)[1] = "." /\ basename(path) # NameGit
    \/ basename(path) = NameNodeModules
    \/ nodeAt(fs, path).type # "dir"
    \/ nodeAt(fs, path).lstat \in {"symlink", "fail"}

\* the paths from below the base path down to that path
PathsDownTo(path) == {SubSeq(path, 1, k) : k \in (Len(BasePath) + 1)..Len(path)}

\* C11: no returned root lies at or below a hidden directory, node_modules, a
\* symbolic link or an entry whose lstat fails (below the base path), and
\* the .git entry of every returned root is a directory that is no symbolic
\* link and whose lstat succeeds
C11_NoRootThroughSkipped ==
    pc = "found" =>
       \A r \in Range(repos) :
          /\ \A p \in PathsDownTo(r) : existsSync(fs, p) /\ ~SkippedEntry(p)
          /\ existsSync(fs, Append(r, NameGit))
          /\ ~SkippedEntry(Append(r, NameGit))

\* a walk that returned a root from a tree holding a .git under a hidden
\* directory, under node_modules, under a link and in a directory whose .git
\* is not a plain directory
C11_Witness ==
    /\ pc = "found"
    /\ maxDepth >= 1
    /\ repos # <<>>
    /\ existsSync(fs, Append(PathHidden, NameGit))
    /\ existsSync(fs, Append(PathModules, NameGit))
    /\ existsSync(fs, PathLink) /\ SkippedEntry(PathLink)
    /\ existsSync(fs, Append(PathC, NameGit)) /\ SkippedEntry(Append(PathC, NameGit))
    /\ PathC \notin Range(repos)

\* the walk from the base path comes to that directory and lists it: it is
\* within the depth bound, no entry on the way down is passed over, and the
\* base path, every directory on the way and the directory itself can be listed
Reached(dir) ==
    /\ Depth(dir) <= maxDepth
    /\ canList(fs, BasePath)
    /\ \A p \in PathsDownTo(dir) : existsSync(fs, p) /\ ~SkippedEntry(p) /\ canList(fs, p)

\* the directory has a child directory .git (no link, lstat succeeding)
HasGitDir(dir) ==
    existsSync(fs, Append(dir, NameGit)) /\ ~SkippedEntry(Append(dir, NameGit))

\* the directories of the tree, the base path among them
Directories == {n.path : n \in {m \in fs : m.type = "dir" /\ Len(m.path) >= Len(BasePath)}}

\* C12: every directory D the walk comes to (not passed over, within the depth
\* bound, listable) that has a child directory .git is returned exactly once;
\* no .git directory is ever listed; and every subdirectory of D that is not
\* passed over and is within the depth bound is listed as well (so that the
\* repositories nested in D, being such directories D themselves, are returned)
C12_RootOnceAndDescend ==
    pc = "found" =>
       /\ \A l \in Range(listed) : basename(l.path) # NameGit
       /\ \A D \in Directories :
             (Reached(D) /\ HasGitDir(D)) =>
                /\ Cardinality({i \in 1..Len(repos) : repos[i] = D}) = 1
                /\ \A sub \in Descendable(D) :
                      Depth(sub) <= maxDepth => sub \in ListedPaths

\* a walk that returned w/x, the repository w/x/y nested in it, and the
\* repository w/x/y/c nested in that one
C12_Witness ==
    /\ pc = "found"
    /\ HasGitDir(BasePath)
    /\ Len(repos) >= 4
    /\ {BasePath, PathX, PathXY, PathXYC} \subseteq Range(repos)
    /\ \A D \in {PathX, PathXY, PathXYC} : Reached(D) /\ HasGitDir(D)

\* C13: when a directory D cannot be listed, the walk still completes, returns
\* no root at or below D, and returns every root outside D's subtree that it
\* comes to (whether listed before D or after it)
C13_ListingFailureIsLocal ==
    pc = "found" =>
       \A D \in Directories :
          ~canList(fs, D) =>
             /\ \A r \in Range(repos) : ~startsWith(r, D)
             /\ \A E \in Directories :
                   (Reached(E) /\ HasGitDir(E) /\ ~startsWith(E, D)) => E \in Range(repos)

\* a walk over a tree whose w/x cannot be listed although it holds a .git and a
\* nested repository: the roots w, w/c (listed before w/x) and w/y (listed
\* after it) are returned, nothing of w/x
C13_Witness ==
    /\ pc = "found"
    /\ maxDepth >= 2
    /\ existsSync(fs, PathX) /\ ~canList(fs, PathX)
    /\ existsSync(fs, Append(PathX, NameGit))
    /\ existsSync(fs, Append(PathXY, NameGit))
    /\ Range(repos) = {BasePath, PathC, PathY}

\* the four names that exist directly under the repository, in the fixed order
ExistingEnvNames(repo) ==
    SelectSeq(EnvFileNames, LAMBDA f : existsSync(fs, Append(repo, f)))

\* C14: findEnvFiles returns one candidate for each of .env, .dev.vars,
\* .env.local, .env.production that exists directly under the repository, in
\* that order, and nothing else; gitIgnored is true exactly when git
\* check-ignore reports the file ignored, false when it reports it not
\* ignored or fails
C14_EnvFilesLocated ==
    pc = "located" =>
       /\ [i \in 1..Len(ret) |-> ret[i].filename] = ExistingEnvNames(args[1])
       /\ \A i \in 1..Len(ret) :
             /\ ret[i].path = Append(args[1], ret[i].filename)
             /\ ret[i].gitIgnored = (nodeAt(fs, ret[i].path).ignore = "ignored")
             /\ nodeAt(fs, ret[i].path).ignore \in {"tracked", "error"}
                   => ret[i].gitIgnored = FALSE

\* all four names exist, one ignored, one not ignored, one for which git
\* fails, next to a file of another name
C14_Witness ==
    /\ pc = "located"
    /\ Len(ret) = 4
    /\ \A a \in IgnoreAnswers : \E i \in 1..4 : nodeAt(fs, ret[i].path).ignore = a
    /\ \E i \in 1..4 : ret[i].gitIgnored
    /\ \E i \in 1..4 : ~ret[i].gitIgnored
    /\ existsSync(fs, Append(RepoA, <<"c">>))

\* the first underscore-delimited segment of a key
FirstSegment(key) == split(key, "_")[1]

\* C15: decoding the name made from (folder, key, environment) gives back the
\* key and the environment (null when absent), except when the environment
\* is present and the first underscore-delimited segment of the key is all
\* lower-case letters
C15_RoundTrip ==
    pc = "decoded" =>
       \/ truthy(args[3]) /\ isLowerAlpha(FirstSegment(args[2]))
       \/ /\ ret.key = args[2]
          /\ ret.env = (IF truthy(args[3]) THEN args[3] ELSE Null)

\* the characters of a slug: [a-z0-9_-]
SlugChar == Lower \cup Digit \cup {"_", "-"}

\* C16: the result of normalizeFolder holds only characters of [a-z0-9_-],
\* and normalizeFolder applied to its own result returns it unchanged
C16_NormalizeIdempotent ==
    /\ pc \in {"once", "twice"} => \A i \in 1..Len(ret) : ret[i] \in SlugChar
    /\ pc = "twice" => ret = args[2] /\ args[2] = normalizeFolder(args[1])

\* a camelCase name with a character outside the slug alphabet, normalized
\* twice: the first call changed it, the second did not
C16_Witness ==
    /\ pc = "twice"
    /\ args[1] = <<"a", "B", ".", "1">>
    /\ args[2] = <<"a", "-", "b", "-", "1">>
    /\ ret = args[2]

\* a line is blank, or a comment (its trimmed form starts with #)
BlankOrComment(line) == trim(line) = <<>> \/ trim(line)[1] = "#"

\* a line has the form identifier = value: white space, an identifier, white
\* space, the equals sign, white space, and a rest without a line terminator
IsAssignment(line) ==
    \E a \in 1..Len(line) : \E b \in a..Len(line) : \E c \in (b + 1)..Len(line) :
       \E d \in (c + 1)..(Len(line) + 1) :
          /\ \A i \in 1..(a - 1) : line[i] \in WhiteSpace
          /\ line[a] \in IdStart
          /\ \A i \in a..b : line[i] \in IdChar
          /\ \A i \in (b + 1)..(c - 1) : line[i] \in WhiteSpace
          /\ line[c] = "="
          /\ \A i \in (c + 1)..(d - 1) : line[i] \in WhiteSpace
          /\ \A i \in d..Len(line) : line[i] \notin LineTerminator

RECURSIVE linesFrom(_, _, _)
\* the lines of a text, a line ending at a line feed or a carriage return
linesFrom(s, i, cur) ==
    IF i > Len(s) THEN <<cur>>
    ELSE IF s[i] \in LineTerminator THEN <<cur>> \o linesFrom(s, i + 1, <<>>)
    ELSE linesFrom(s, i + 1, Append(cur, s[i]))

TextLines(s) == linesFrom(s, 1, <<>>)

\* the text the line scanner is given, and the lines it goes through
Remaining(content) == removeMatches(content, multilineMatches(content, 1))

ScannedLines(content) == split(Remaining(content), "\n")

\* the entries the line scanner added: those after the multi-line entries
SingleLineEntries(content, entries) ==
    SubSeq(entries, Len(multilineMatches(content, 1)) + 1, Len(entries))

MatchedSpans(content) ==
    UNION {(m.last - Len(m.text) + 1)..m.last : m \in Range(multilineMatches(content, 1))}

\* the text without the matched spans
SpansRemoved(content) ==
    LET kept == SelectSeq([i \in 1..Len(content) |-> i],
                          LAMBDA i : i \notin MatchedSpans(content))
    IN  [j \in 1..Len(kept) |-> content[kept[j]]]

\* C18: every assignment matched by the multi-line scan yields exactly one
\* entry with the matched key and value; the text given to the line scanner
\* is the input without exactly the matched spans; so the entries after the
\* multi-line entries are those of the lines outside the matched spans, and
\* a matched assignment gives no single-line entry
C18_MatchedSpanRemoved ==
    pc = "parsed" =>
       LET matches == multilineMatches(args[1], 1)
       IN  /\ Len(ret) >= Len(matches)
           /\ \A i \in 1..Len(matches) :
                 ret[i] = [key |-> matches[i].key, value |-> matches[i].value]
           /\ Remaining(args[1]) = SpansRemoved(args[1])
           /\ SingleLineEntries(args[1], ret)
                 = parseLines(split(SpansRemoved(args[1]), "\n"))

\* a value with every CRLF replaced by LF and the white space at its ends removed
Normalized(v) == trim(replaceCRLF(v))

\* a value without its blanks and tabs
Unspaced(v) == SelectSeq(v, LAMBDA ch : ch \notin {" ", "\t"})

HasLineEnd(v) == \E i \in 1..Len(v) : v[i] \in LineTerminator

\* C19: compareValues(a, b) is true exactly when a and b are equal after
\* replacing CRLF by LF and removing the white space at the ends; it is
\* reflexive, symmetric and transitive; values that differ only in letter case,
\* or (line ends aside) only in blanks inside them, are different; and
\* x CRLF equals x LF
C19_CompareValues ==
    pc = "compared" =>
       LET a == args[1]
           b == args[2]
       IN  /\ ret.ab = (Normalized(a) = Normalized(b))
           /\ ret.aa
           /\ ret.ab = ret.ba
           /\ (ret.ab /\ ret.bc) => ret.ac
           /\ (trim(a) # trim(b) /\ toLowerCase(trim(a)) = toLowerCase(trim(b))) => ~ret.ab
           /\ ( /\ ~HasLineEnd(a) /\ ~HasLineEnd(b)
                /\ trim(a) # trim(b)
                /\ Unspaced(a) = Unspaced(b) ) => ~ret.ab
           /\ (a = <<"x", "\r", "\n">> /\ b = <<"x", "\n">>) => ret.ab

\* x CRLF compared with x LF and with x: all three equal
C19_Witness ==
    /\ pc = "compared"
    /\ args = <<<<"x", "\r", "\n">>, <<"x", "\n">>, <<"x">>>>
    /\ ret.ab /\ ret.bc /\ ret.ac

\* the env files located in the repositories of the tree
LocatedFiles ==
    {rf \in ExpectedRepos \X Range(EnvFileNames) : existsSync(fs, Append(rf[1], rf[2]))}

FileContent(rf) == nodeAt(fs, Append(rf[1], rf[2])).content

\* the file cannot be read, is blank, or gives no parsed entry
PassedOver(rf) ==
    \/ FileContent(rf) = Null
    \/ trim(FileContent(rf)) = <<>>
    \/ Len(parseEnvFile(FileContent(rf))) = 0

\* the positions of the results of a file
ResultsOf(rf) ==
    {i \in 1..Len(results) : tuples[i].repoPath = rf[1] /\ tuples[i].file = rf[2]}

\* C20: a located env file that cannot be read, is blank or gives no parsed
\* entry is never evaluated, has no result and no share in the counters; every
\* result of another file carries the number of its parsed entries (a key
\* written twice counted twice), and after the scan each such file has a
\* result; when no environment filter is given and the store holds no secret
\* under the repository's normalized folder, it has exactly one, NEW, with
\* environment (default)
C20_FileResults ==
    /\ \A rf \in LocatedFiles :
          PassedOver(rf) =>
             /\ ResultsOf(rf) = {}
             /\ \A i \in 1..Len(tuples) : <<tuples[i].repoPath, tuples[i].file>> # rf
    /\ syncedCount + diffCount + newCount
          = Cardinality(UNION {ResultsOf(rf) : rf \in {x \in LocatedFiles : ~PassedOver(x)}})
    /\ \A rf \in LocatedFiles :
          \A i \in ResultsOf(rf) :
             results[i].keyCount = Len(parseEnvFile(FileContent(rf)))
    /\ pc = "done" =>
          \A rf \in LocatedFiles :
             ~PassedOver(rf) =>
                /\ ResultsOf(rf) # {}
                /\ ( /\ ~truthy(filterEnv)
                     /\ \A sec \in Range(store) :
                           sec.folder # normalizeFolder(basename(rf[1])) )
                   => /\ Cardinality(ResultsOf(rf)) = 1
                      /\ \A i \in ResultsOf(rf) :
                            results[i].status = "NEW" /\ results[i].env = DefaultLabel

\* a completed scan without filter, the store holding a secret of another
\* folder only: .env with the key K twice has its one result, NEW, (default),
\* two keys; the blank or unreadable .dev.vars next to it has none
C20_Witness ==
    /\ pc = "done"
    /\ filterEnv = Null
    /\ Len(store) = 1
    /\ existsSync(fs, Append(RepoA, NameEnv))
    /\ FileContent(<<RepoA, NameEnv>>) = TextDup
    /\ existsSync(fs, Append(RepoA, NameDevVars))
    /\ PassedOver(<<RepoA, NameDevVars>>)
    /\ Len(results) = 1
    /\ results[1].status = "NEW"
    /\ results[1].env = DefaultLabel
    /\ results[1].keyCount = 2
    /\ newCount = 1

\* the index build is over
IndexBuilt == pc \in {"repos", "files", "envs", "fetch", "done"}

\* the positions (group, member) at which the index holds the secret of that name
IndexPlaces(name) ==
    {p \in UNION {{<<i, j>> : j \in 1..Len(secretsByFolderEnv[i].val)} :
                     i \in 1..Len(secretsByFolderEnv)} :
        secretsByFolderEnv[p[1]].val[p[2]].secret.name = name}

\* what the index is to hold once built: every group key, once, with exactly
\* the listed secrets labelled with its folder and environment; a secret with
\* a folder label at one place, a secret without one at none
IndexIsSnapshot ==
    /\ \A i, j \in 1..Len(secretsByFolderEnv) :
          secretsByFolderEnv[i].key = secretsByFolderEnv[j].key => i = j
    /\ \A i \in 1..Len(secretsByFolderEnv) :
          LET members == secretsByFolderEnv[i].val
          IN  /\ Len(members) >= 1
              /\ \A j \in 1..Len(members) :
                    /\ members[j].secret \in Range(allSecrets)
                    /\ truthy(members[j].secret.folder)
                    /\ members[j].env = labelEnv(members[j].secret)
                    /\ secretsByFolderEnv[i].key
                          = members[j].secret.folder \o <<"|">>
                               \o (IF truthy(members[j].secret.env)
                                   THEN members[j].secret.env ELSE <<>>)
    /\ \A sec \in Range(allSecrets) :
          Cardinality(IndexPlaces(sec.name)) = (IF truthy(sec.folder) THEN 1 ELSE 0)

\* C21: once the index is built it maps each key folder|environment to
\* exactly the listed secrets carrying these labels, every listed secret with
\* a folder label in exactly one group and a secret without one in none, and
\* no later step of the scan changes the index
C21_IndexSnapshot ==
    /\ [](IndexBuilt => IndexIsSnapshot)
    /\ [][IndexBuilt => secretsByFolderEnv' = secretsByFolderEnv]_vars

\* a completed scan with results over a store of a labelled secret and a
\* secret without labels: one group of one secret
C21_Witness ==
    /\ pc = "done"
    /\ Len(results) >= 1
    /\ Len(allSecrets) = 2
    /\ \E sec \in Range(allSecrets) : ~truthy(sec.folder)
    /\ Len(secretsByFolderEnv) = 1
    /\ Len(secretsByFolderEnv[1].val) = 1

\* a value without one layer of quotes, when it starts and ends with the same
\* quote character; the value itself otherwise
Unquoted(raw) ==
    IF Len(raw) >= 2 /\ raw[1] \in Quote /\ raw[Len(raw)] = raw[1]
    THEN SubSeq(raw, 2, Len(raw) - 1)
    ELSE raw

\* C22: the value of a single-line entry is the text after the equals sign
\* without one layer of quotes when that text starts and ends with the same
\* quote character, and that text unchanged otherwise (a quote at one end only,
\* or two different quote characters)
C22_QuotesStrippedInPairs ==
    pc = "parsed" =>
       LET good   == SelectSeq(ScannedLines(args[1]), IsAssignment)
           single == SingleLineEntries(args[1], ret)
       IN  /\ Len(single) = Len(good)
           /\ \A i \in 1..Len(single) :
                 single[i].value = Unquoted(lineMatch(good[i]).value)

\* the backticks after position open that no backslash precedes
UnescapedBackticks(content, open) ==
    {k \in (open + 1)..Len(content) :
        content[k] = Backtick /\ content[k - 1] # "\\"}

\* C23: the value of the first backtick-delimited assignment runs from its
\* opening backtick to the next backtick that no backslash precedes: a
\* backtick after a backslash does not end it
C23_EscapedBacktickKept ==
    pc = "parsed" =>
       LET matches == multilineMatches(args[1], 1)
       IN  Len(matches) >= 1 =>
              LET open   == matches[1].last - Len(matches[1].value) - 1
                  closes == UnescapedBackticks(args[1], open)
              IN  /\ args[1][open] = Backtick
                  /\ closes # {}
                  /\ ret[1].key = matches[1].key
                  /\ ret[1].value = SubSeq(args[1], open + 1, SetMin(closes) - 1)

\* the entries of a list without those whose key an earlier entry has
FirstOfEachKey(entries) ==
    LET firsts == {i \in 1..Len(entries) :
                     \A j \in 1..(i - 1) : entries[j].key # entries[i].key}
    IN  pick(entries, firsts, 1)

HasKeyTwice(entries) == Len(FirstOfEachKey(entries)) < Len(entries)

\* the status of a list of local entries against a group of stored secrets,
\* each compared entry against the latest value stored under its key
StatusAgainst(entries, group) ==
    IF group = {} THEN "NEW"
    ELSE IF /\ \A e \in Range(entries) : \E sec \in group :
                  /\ StoredKey(sec) = e.key
                  /\ sec.latest # Null
                  /\ compareValues(e.value, sec.latest)
            /\ \A sec \in group : \E e \in Range(entries) : e.key = StoredKey(sec)
         THEN "OK"
    ELSE "DIFF"

\* a file with a key twice is parsed into both entries, in file order
BothEntriesParsed ==
    pc \in {"envs", "fetch"} /\ nodeAt(fs, envFile.path).content = TextDup
       => localEntries = <<[key |-> KeyK, value |-> <<"1">>],
                           [key |-> KeyK, value |-> <<"2">>]>>

\* C24 as stated: a file with a key twice is parsed into both entries, and
\* its status is that of the file with only the first entry of each key (the
\* later entries of a key are not compared); scans in which no remote call met
\* an error other than NotFound
C24_Original ==
    /\ BothEntriesParsed
    /\ faults = 0 =>
          \A i \in 1..Len(results) :
             HasKeyTwice(TupleLocal(tuples[i])) =>
                results[i].status
                   = StatusAgainst(FirstOfEachKey(TupleLocal(tuples[i])), TupleGroup(tuples[i]))

\* C24 amended: a file with a key twice is parsed into both entries, and every
\* entry, the later ones of a key included, is compared with the remote value
\* of its key: the status is that of the whole entry list, so a file whose
\* first value matches and whose second does not is DIFF; scans in which no
\* remote call met an error other than NotFound
C24_EveryEntryCompared ==
    /\ BothEntriesParsed
    /\ faults = 0 =>
          \A i \in 1..Len(results) :
             results[i].status = StatusAgainst(TupleLocal(tuples[i]), TupleGroup(tuples[i]))

\* a completed scan against the stored value 1 of K: .env with K=1 and K=2 is
\* DIFF, .dev.vars with K=1 alone is OK
C24_Witness ==
    /\ pc = "done"
    /\ faults = 0
    /\ Len(results) = 2
    /\ tuples[1].file = NameEnv /\ TupleLocal(tuples[1]) = parseEnvFile(TextDup)
    /\ tuples[2].file = NameDevVars /\ TupleLocal(tuples[2]) = parseEnvFile(TextK1)
    /\ results[1].status = "DIFF"
    /\ results[2].status = "OK"

\* the calls the push command issued: those before the scan's listSecrets
PushCalls ==
    LET firstList == {i \in 1..Len(calls) : calls[i].op = "listSecrets"}
    IN  IF firstList = {} THEN calls ELSE SubSeq(calls, 1, SetMin(firstList) - 1)

\* C25: in push, for each key: a secret that already exists gets a new
\* version and is not created; createSecret is attempted only right after
\* the existence check (getSecret) of that secret reported NOT_FOUND; any
\* other failure of getSecret, of updateSecret or of addSecretVersion ends
\* the command with that error: no call follows it, in particular no
\* createSecret.
C25_CreateOnlyWhenNotFound ==
    /\ \A i \in 1..Len(PushCalls) :
          PushCalls[i].op = "createSecret" =>
             /\ i > 1
             /\ PushCalls[i - 1].op = "getSecret"
             /\ PushCalls[i - 1].name = PushCalls[i].name
             /\ PushCalls[i - 1].outcome = "notFound"
    /\ \A i \in 1..Len(PushCalls) :
          PushCalls[i].outcome = "denied" => i = Len(PushCalls)
    /\ pc = "pushed" =>
          \A i \in 1..Len(before) :
             (\E j \in 1..Len(PushCalls) :
                 PushCalls[j].op = "getSecret" /\ PushCalls[j].name = before[i].name)
             => /\ \E j \in 1..Len(PushCalls) :
                      /\ PushCalls[j].op = "addSecretVersion"
                      /\ PushCalls[j].name = before[i].name
                      /\ PushCalls[j].outcome = "ok"
                /\ ~\E j \in 1..Len(PushCalls) :
                      PushCalls[j].op = "createSecret" /\ PushCalls[j].name = before[i].name

\* the file name the push command read
PushedFile == IF truthy(args[2]) THEN args[2] ELSE NameEnv

\* the store held no secret labelled (folder, environment of the push)
NothingUnderTarget ==
    \A i \in 1..Len(before) :
       ~(before[i].folder = pushFolder /\ labelEnv(before[i]) = targetEnv)

\* the results of the scan for (repository w/aB, the pushed file, environment of the push)
ResultsOfPushed ==
    {i \in 1..Len(results) :
        /\ tuples[i].repoPath = Cwd
        /\ tuples[i].file = PushedFile
        /\ tuples[i].env = targetEnv}

\* C26: push-then-scan consistency: the store held no secret under (F, E),
\* push uploaded at least one key of env file X of the repository whose name
\* normalizes to F, to environment E, no call failed, and scan --env E ran
\* to its end: the scan reports OK for (repository, X, E).
C26_PushThenScanOK ==
    ( /\ pc = "done"
      /\ count >= 1
      /\ faults = 0
      /\ ~truthy(args[1])
      /\ NothingUnderTarget )
    => /\ ResultsOfPushed # {}
       /\ \A i \in ResultsOfPushed : results[i].status = "OK"

\* the keys of the lines the push loop uploads
PushedKeys == {pushMatch(lines[j]).key : j \in {k \in 1..Len(lines) : ~pushSkips(lines[k])}}

\* the secret was labelled with another folder or another environment than
\* the push goes to
OutsideTarget(sec) == sec.folder # pushFolder \/ labelEnv(sec) # targetEnv

\* C27: namespace isolation of push: a secret that before the push was
\* labelled with a different folder or a different environment than (F, E)
\* has another name than every secret the push writes, gets no version and
\* no label update from the push, and is in the store afterwards as it was
\* before.
C27_PushKeepsOtherGroups ==
    \A i \in 1..Len(before) :
       OutsideTarget(before[i]) =>
          /\ \A k \in PushedKeys : makeSecretName(pushFolder, k, targetEnv) # before[i].name
          /\ \A j \in 1..Len(PushCalls) :
                ( /\ PushCalls[j].op \in {"updateSecret", "addSecretVersion"}
                  /\ PushCalls[j].outcome = "ok" )
                => PushCalls[j].name # before[i].name
          /\ store[i] = before[i]

RECURSIVE lastValues(_, _)
\* the keys of the entries in the order of their first upload, each with the
\* value uploaded last
lastValues(entries, m) ==
    IF Len(entries) = 0 THEN m
    ELSE lastValues(Tail(entries), mapSet(m, entries[1].key, entries[1].value))

\* one KEY=value line for every key uploaded from the content
UploadedLines(content) ==
    LET m == lastValues(parseEnvFile(content), <<>>)
    IN  [i \in 1..Len(m) |-> m[i].key \o <<"=">> \o m[i].val]

\* C28: MCP push/pull round trip: after secrets_push succeeded with folder
\* argument F and content C on an empty store, secrets_pull with the same
\* folder argument returns one KEY=value line for every key uploaded from C,
\* the key as written in C and the value as uploaded.
C28_McpRoundTrip ==
    (pc = "mcpPulled" /\ truthy(args[1]) /\ Len(UploadedLines(args[2])) > 0)
    => ret = join(UploadedLines(args[2]), "\n")

====
